---- MODULE Spec2Model ----
(***************************************************************************)
(* Verification model of telegram-chat-parser.                             *)
(*                                                                         *)
(* Part 1: the upstream client (internal/telegram, Client) and the client  *)
(* router (internal/telegram/router, Router and clientWrapper).            *)
(*                                                                         *)
(* Every goroutine of the code is a process of the model: the callers that *)
(* lease a client and run one RPC through the wrapper, the detached        *)
(* handleClientError goroutines, the healthCheckLoop goroutine, the        *)
(* time.AfterFunc timers and the checkAndRecoverClient bodies they start.  *)
(* A step of the model is one critical section (Lock .. Unlock) or one     *)
(* access to shared state of the code; a lock is taken and released        *)
(* inside the step that models its critical section.                       *)
(***************************************************************************)
EXTENDS Naturals, Integers, Sequences, FiniteSets, Bags, TLC

(***************************************************************************)
(* Bounds of the model.                                                    *)
(***************************************************************************)
\* the clock runs from 1 to MaxTime (0 is the zero time.Time)
MaxTime == 2
\* the largest N of an upstream FLOOD_WAIT (N)
MaxFloodWait == 1
\* goroutines alive at the same time besides healthCheckLoop: callers
\* between GetClient and the return of their RPC, handleClientError
\* goroutines and checkAndRecoverClient bodies
MaxGoroutines == 2

\* callers that invoke RPCs on one Client directly at the same time
MaxRPCs == 2
\* goroutines alive at a time besides healthCheckLoop in FairSpec
LiveGoroutines == 1

\* the clients handed to the router
Clients == {"c1"}

\* time.Time{} : the zero instant, "recovery time not set"
ZeroTime == 0

VARIABLES
    now,               \* the wall clock (time.Now / Client.clock)
    upstream,          \* upstream[c]: does Telegram answer c's calls ("ok") or fail them ("down")
    unhealthyUntil,    \* Client.unhealthyUntil, per client
    cmu,               \* Client.mu, per client: the set of goroutines holding it
    healthy,           \* Router.healthy   (the key set of the map)
    unhealthy,         \* Router.unhealthy (the key set of the map)
    scheduledRecovery, \* Router.scheduledRecovery
    mu,                \* Router.mu: the set of goroutines holding it
    currentIndex,      \* RoundRobinStrategy.currentIndex
    calls,             \* bag of caller goroutines between GetClient and the return of their RPC
    handlers,          \* bag of running handleClientError goroutines
    timers,            \* bag of armed time.AfterFunc timers that have not fired
    recoveries,        \* bag of running checkAndRecoverClient bodies
    sweep,             \* the healthCheckLoop goroutine
    tickerC,           \* number of ticks buffered in Router.ticker.C (capacity 1)
    stop,              \* Router.Stop: "no" (not called), "waiting" (in wg.Wait), "returned"
    rpcs,              \* callers that use a Client directly, without the router
    runErr,            \* Client.runErr, per client: the channel of the background runner
    history            \* TRUE when the handlers and the attempts are recorded (history variable)

clientVars == <<unhealthyUntil, cmu>>
routerVars == <<healthy, unhealthy, scheduledRecovery, mu, currentIndex>>
procVars   == <<calls, handlers, timers, recoveries, sweep, tickerC, stop>>
directVars == <<rpcs, runErr>>

\* one run of EnrichmentService.Enrich
VARIABLES
    participants,      \* the participants of Enrich: its argument, deduplicated once it runs
    tasks,             \* the tasks channel: indexes into the deduplicated participants
    tasksClosed,       \* has close(tasks) run
    results,           \* the results channel
    workers,           \* the worker goroutines of the pool: a bag of their positions
    ctx,               \* the context of the run: "live", or the ctx.Err() it ended with
    enrichedUsersMap,  \* the map of the collecting loop of Enrich
    unidentifiedUsers, \* the users with ID 0 the loop has collected
    processingErrors,  \* the errors the loop has collected
    finishedCount,     \* the results the loop has counted
    epc,               \* where Enrich is: "idle", "collect", "wait" (in wg.Wait), "returned"
    ret,               \* what Enrich returned
    attempts,          \* per participant: times a worker took it from the queue (history variable)
    emitted,           \* per participant: results sent for it (history variable)
    deadlineEarly      \* the context ended when a participant had no result yet (history variable)

enrichVars == <<participants, tasks, tasksClosed, results, workers, ctx, enrichedUsersMap,
                unidentifiedUsers, processingErrors, finishedCount, epc, ret,
                attempts, emitted, deadlineEarly>>

\* the task store of the server, the goroutines of its handlers and its readers
VARIABLES
    storeTasks,        \* ts.tasks: the ids of the map (the pointer of a task is its id)
    taskObjects,       \* the Task objects by pointer, NoTask where none was allocated
    storeMutex,        \* ts.mutex: "free" or "locked" by a mutator
    jobs,              \* per task: the goroutine the handler started for it
    expired,           \* the tasks 1..expired have passed their ExpiresAt
    readers            \* the requests of the status and result endpoints in flight

storeVars == <<storeTasks, taskObjects, storeMutex, jobs, expired, readers>>

\* the result cache and the calls of ProcessChat
VARIABLES
    cache,             \* cs.cache: fingerprint -> CacheItem
    cacheNow,          \* the clock time.Now reads in the cache
    lastGet,           \* the last Get: its key, its instant, the item stored and the answer
    uploads,           \* per task: the files of its submission
    chatCalls,         \* per task: where its call of ProcessChat is and what it met
    wrapped,           \* the last RPC through a clientWrapper: what the client and the wrapper returned
    paged              \* the result of a completed task and the last request of a page of it

cacheVars == <<cache, cacheNow, lastGet>>
processVars == <<uploads, chatCalls>>
\* the state of the services above the router
serviceVars == <<enrichVars, storeVars, cacheVars, processVars, wrapped, paged>>
\* the state of the router, its clients and their callers
telegramVars == <<now, upstream, clientVars, routerVars, procVars, directVars, history>>
vars == <<now, upstream, clientVars, routerVars, procVars, directVars, history, serviceVars>>

(***************************************************************************)
(* Helpers                                                                 *)
(***************************************************************************)
BagAdd(b, e) == b (+) SetToBag({e})
BagRemove(b, e) == b (-) SetToBag({e})

\* all orders in which a Go map iteration can visit the keys in s
RECURSIVE Orders(_)
Orders(s) ==
    IF s = {} THEN {<<>>}
    ELSE UNION {{<<x>> \o rest : rest \in Orders(s \ {x})} : x \in s}

(***************************************************************************)
(* Errors.  An error is modelled by the part of its text that the code     *)
(* looks at: <<marker, N>>.                                                *)
(***************************************************************************)
\* the errors the upstream can answer with
UpstreamErrors ==
    {<<"FLOOD_WAIT", n>> : n \in 0..MaxFloodWait}
        \cup {<<"flood_wait", 1>>, <<"RPC_ERROR", 0>>}

\* ErrFloodWaitActive, "client is in flood wait: active until ..."
ErrFloodWaitActive == <<"client is in flood wait", 0>>

\* parseFloodWait: floodWaitRegex `FLOOD_WAIT \((\d+)\)` is case-sensitive.
\* N stays far below the range of strconv.Atoi and of
\* time.Duration(seconds) * time.Second.
parseFloodWait(err) ==
    IF err[1] = "FLOOD_WAIT"
    THEN [ok |-> TRUE, seconds |-> err[2]]
    ELSE [ok |-> FALSE, seconds |-> 0]

(***************************************************************************)
(* Client (internal/telegram)                                              *)
(***************************************************************************)
\* a sync.RWMutex can be taken when nobody holds it (no step of the model
\* ends inside a critical section, so readers and writers need no split)
Free(lock) == lock = {}

\* checkHealthStatus without the clock: once set, the cool-down never ends
checkHealthStatus_NeverExpires(c) ==
    ~(unhealthyUntil[c] # ZeroTime)

\* Client.checkHealthStatus: TRUE when it returns nil, FALSE when it
\* returns ErrFloodWaitActive.  It holds c.mu (RLock) only while it reads.
checkHealthStatus(c) ==
    ~(unhealthyUntil[c] # ZeroTime /\ now < unhealthyUntil[c])

\* handleError that only ever extends the cool-down
handleError_KeepLater(c, err) ==
    /\ Free(cmu[c])
    /\ unhealthyUntil' =
          IF parseFloodWait(err).ok /\ now + parseFloodWait(err).seconds > unhealthyUntil[c]
          THEN [unhealthyUntil EXCEPT ![c] = now + parseFloodWait(err).seconds]
          ELSE unhealthyUntil
    /\ UNCHANGED cmu

\* Client.handleError: a FLOOD_WAIT error sets unhealthyUntil to clock()+N,
\* any other error leaves it alone.
handleError(c, err) ==
    /\ Free(cmu[c])
    /\ unhealthyUntil' =
          IF parseFloodWait(err).ok
          THEN [unhealthyUntil EXCEPT ![c] = now + parseFloodWait(err).seconds]
          ELSE unhealthyUntil
    /\ UNCHANGED cmu

\* Client.GetRecoveryTime: the method is declared in ports.TelegramClient
\* and called by the router, its body is not part of the sources; it returns
\* the client's recovery_time
GetRecoveryTime(c) == unhealthyUntil[c]

(***************************************************************************)
(* RoundRobinStrategy                                                      *)
(***************************************************************************)
\* the counter is a uint32; only idx % len(clients) is ever used, and 2^32
\* is a multiple of every snapshot length up to 2, so a counter that wraps
\* at the least common multiple of these lengths yields the same choices
IndexPeriod == IF Cardinality(Clients) > 1 THEN 2 ELSE 1

\* RoundRobinStrategy.Next on a non-empty snapshot
RoundRobinNext(clients, idx) == clients[(idx % Len(clients)) + 1]

(***************************************************************************)
(* Router: the two map moves                                               *)
(***************************************************************************)
\* setClientUnhealthy that forgets r.unhealthy[id] = client
setClientUnhealthy_DropsClient(c) ==
    /\ Free(mu)
    /\ IF c \notin healthy
       THEN UNCHANGED <<healthy, unhealthy>>
       ELSE /\ healthy' = healthy \ {c}
            /\ UNCHANGED unhealthy
    /\ UNCHANGED mu

\* Router.setClientUnhealthy
setClientUnhealthy(c) ==
    /\ Free(mu)
    /\ IF c \notin healthy
       THEN UNCHANGED <<healthy, unhealthy>>
       ELSE /\ healthy' = healthy \ {c}
            /\ unhealthy' = unhealthy \cup {c}
    /\ UNCHANGED mu

\* setClientHealthy that forgets delete(r.unhealthy, id)
setClientHealthy_KeepsUnhealthy(c) ==
    /\ Free(mu)
    /\ IF c \notin unhealthy
       THEN UNCHANGED <<healthy, unhealthy>>
       ELSE /\ healthy' = healthy \cup {c}
            /\ UNCHANGED unhealthy
    /\ UNCHANGED mu

\* Router.setClientHealthy
setClientHealthy(c) ==
    /\ Free(mu)
    /\ IF c \notin unhealthy
       THEN UNCHANGED <<healthy, unhealthy>>
       ELSE /\ unhealthy' = unhealthy \ {c}
            /\ healthy' = healthy \cup {c}
    /\ UNCHANGED mu

\* a caller that has no RPC in progress on the client
NoError == <<"nil", 0>>
IdleRPC == [pc |-> "idle", client |-> "", err |-> NoError]

\* the goroutines that run RPCs, as the locks know them
Caller(c)    == <<"clientWrapper", c>>
Recoverer(c) == <<"checkAndRecoverClient", c>>
Sweeper      == <<"healthCheckLoop", "">>

\* the locks goroutine g holds
LocksHeld(g) ==
    (IF g \in mu THEN {"Router.mu"} ELSE {}) \cup {c \in Clients : g \in cmu[c]}

\* the goroutines alive besides healthCheckLoop
Goroutines == BagCardinality(calls) + BagCardinality(handlers) + BagCardinality(recoveries)

(***************************************************************************)
(* Initial state: NewRouter / newTestRouter put every client in healthy.   *)
(***************************************************************************)
InitState ==
    /\ now = 1
    /\ upstream \in [Clients -> {"ok", "down"}]
    /\ unhealthyUntil = [c \in Clients |-> ZeroTime]
    /\ cmu = [c \in Clients |-> {}]
    /\ healthy = Clients
    /\ unhealthy = {}
    /\ scheduledRecovery = {}
    /\ mu = {}
    /\ currentIndex = 0
    /\ calls = EmptyBag
    /\ handlers = EmptyBag
    /\ timers = EmptyBag
    /\ recoveries = EmptyBag
    /\ sweep = [pc |-> "select", ids |-> <<>>]
    /\ tickerC = 0
    /\ stop = "no"
    /\ rpcs = [i \in 1..MaxRPCs |-> IdleRPC]
    /\ runErr = [c \in Clients |-> "open"]

\* no enrichment run has been started
EnrichIdle ==
    /\ participants = <<>>
    /\ tasks = <<>>
    /\ tasksClosed = FALSE
    /\ results = <<>>
    /\ workers = EmptyBag
    /\ ctx = "live"
    /\ enrichedUsersMap = <<>>
    /\ unidentifiedUsers = <<>>
    /\ processingErrors = <<>>
    /\ finishedCount = 0
    /\ epc = "idle"
    /\ ret = <<>>
    /\ attempts = <<>>
    /\ emitted = <<>>
    /\ deadlineEarly = FALSE

\* the tasks the handlers create and the endpoint requests in flight at once
MaxTasks == 2
MaxReaders == 1

\* the ids uuid.NewString hands out, in the order of their creation
TaskIDs == 1..MaxTasks

\* no Task object behind the pointer
NoTask == [Status |-> "none", Result |-> <<>>, ErrorMessage |-> ""]

\* NewTaskStore: an empty map, nothing running
StoreIdle ==
    /\ storeTasks = {}
    /\ taskObjects = [id \in TaskIDs |-> NoTask]
    /\ storeMutex = "free"
    /\ jobs = [id \in TaskIDs |-> [pc |-> "none", result |-> <<>>, err |-> ""]]
    /\ expired = 0
    /\ readers = EmptyBag

\* no item was returned or stored
NoItem == [Data |-> <<>>, ExpiresAt |-> -1]

\* NewCacheStore: an empty map, no Get yet
CacheIdle ==
    /\ cache = <<>>
    /\ cacheNow = 0
    /\ lastGet = [key |-> <<>>, at |-> 0, stored |-> NoItem, item |-> NoItem, found |-> FALSE]

\* no RPC has returned through a clientWrapper
NoReturn == [verb |-> "", client |-> "", inner |-> <<>>, out |-> <<>>]

\* no page of a result has been asked for
NoPage == [result |-> <<>>, page |-> 0, pageSize |-> 0, response |-> <<>>]

\* no submission was made, ProcessChat was not called, no RPC was made
ProcessIdle ==
    /\ wrapped = NoReturn
    /\ paged = NoPage
    /\ uploads = [id \in TaskIDs |-> <<>>]
    /\ chatCalls = [id \in TaskIDs |-> [pc |-> "none", hit |-> FALSE, enriched |-> <<>>, out |-> <<>>]]

\* the services above the router are at rest
ServicesIdle == EnrichIdle /\ StoreIdle /\ CacheIdle /\ ProcessIdle

\* the handlers record nothing about their start
Init == InitState /\ history = FALSE /\ ServicesIdle

\* the handlers record the error and the pool they started with
InitHistory == InitState /\ history = TRUE /\ ServicesIdle

(***************************************************************************)
(* Environment: the clock and the upstream                                 *)
(***************************************************************************)
\* the wall clock advances
Tick ==
    /\ now < MaxTime
    /\ now' = now + 1
    /\ UNCHANGED <<serviceVars, history, upstream, clientVars, routerVars, procVars, directVars>>

\* the upstream starts or stops failing the calls of client c
\* (mockClient.setHealthy / setReturnError in router_test.go)
SetUpstream(c) ==
    /\ upstream' = [upstream EXCEPT ![c] = IF @ = "ok" THEN "down" ELSE "ok"]
    /\ UNCHANGED <<serviceVars, history, now, clientVars, routerVars, procVars, directVars>>

(***************************************************************************)
(* Callers: Router.GetClient, then one RPC through clientWrapper           *)
(***************************************************************************)
\* the goroutine the wrapper starts with `go w.router.handleClientError`;
\* the handler only logs err.  rt is its local recoveryTime.  cooldown
\* records whether err was a FLOOD_WAIT of the upstream, and preUnhealthy
\* whether the client was already in unhealthy when the handler started.
NewHandler(c, err) ==
    [client |-> c, pc |-> "move", rt |-> ZeroTime,
     cooldown |-> history /\ parseFloodWait(err).ok, preUnhealthy |-> FALSE]

\* Router.GetClient with a non-empty healthy map: snapshot the map (in map
\* order), ask the strategy, wrap the client.  With an empty healthy map it
\* returns ErrNoHealthyClients and changes nothing.
GetClient ==
    /\ Goroutines < MaxGoroutines
    /\ Free(mu)
    /\ healthy # {}
    /\ \E clients \in Orders(healthy) :
          calls' = BagAdd(calls, [client |-> RoundRobinNext(clients, currentIndex),
                                  pc |-> "leased"])
    /\ currentIndex' = (currentIndex + 1) % IndexPeriod
    /\ UNCHANGED <<serviceVars, history, directVars, now, upstream, clientVars, healthy, unhealthy, scheduledRecovery, mu,
                   handlers, timers, recoveries, sweep, tickerC, stop>>

\* Client.do, first half, called through the wrapper: checkHealthStatus.
\* A cooling client returns ErrFloodWaitActive without calling f; the
\* wrapper sees a non-nil error and starts the error handler.
CallGate(call) ==
    /\ call.pc = "leased"
    /\ Free(cmu[call.client])
    /\ IF checkHealthStatus(call.client)
       THEN /\ calls' = BagAdd(BagRemove(calls, call), [call EXCEPT !.pc = "wire"])
            /\ UNCHANGED handlers
       ELSE /\ calls' = BagRemove(calls, call)
            /\ handlers' = BagAdd(handlers, NewHandler(call.client, ErrFloodWaitActive))
    /\ UNCHANGED <<serviceVars, history, directVars, now, upstream, clientVars, routerVars, timers, recoveries, sweep, tickerC, stop>>

\* Client.do, second half: f(ctx) returns.  On an error handleError runs
\* and the wrapper starts the error handler.
CallReturn(call) ==
    /\ call.pc = "wire"
    /\ IF upstream[call.client] = "ok"
       THEN /\ calls' = BagRemove(calls, call)
            /\ UNCHANGED <<clientVars, handlers>>
       ELSE \E err \in UpstreamErrors :
                  /\ handleError(call.client, err)
                  /\ calls' = BagRemove(calls, call)
                  /\ handlers' = BagAdd(handlers, NewHandler(call.client, err))
    /\ UNCHANGED <<serviceVars, history, directVars, now, upstream, routerVars, timers, recoveries, sweep, tickerC, stop>>

(***************************************************************************)
(* Router.handleClientError, one goroutine per failed RPC                  *)
(***************************************************************************)
\* r.setClientUnhealthy(client)
HandlerMove(h) ==
    /\ h.pc = "move"
    /\ setClientUnhealthy(h.client)
    /\ handlers' = BagAdd(BagRemove(handlers, h),
                          [h EXCEPT !.pc = "check",
                                    !.preUnhealthy = history /\ h.client \in unhealthy])
    /\ UNCHANGED <<serviceVars, history, directVars, now, upstream, clientVars, scheduledRecovery, currentIndex,
                   calls, timers, recoveries, sweep, tickerC, stop>>

\* recoveryTime := client.GetRecoveryTime(); now := time.Now();
\* return when recoveryTime is zero or already in the past
HandlerCheck(h) ==
    /\ h.pc = "check"
    /\ Free(cmu[h.client])
    /\ LET recoveryTime == GetRecoveryTime(h.client) IN
          IF recoveryTime = ZeroTime \/ now > recoveryTime
          THEN handlers' = BagRemove(handlers, h)
          ELSE handlers' = BagAdd(BagRemove(handlers, h),
                                  [h EXCEPT !.pc = "sched", !.rt = recoveryTime])
    /\ UNCHANGED <<serviceVars, history, directVars, now, upstream, clientVars, routerVars, calls, timers, recoveries,
                   sweep, tickerC, stop>>

\* handleClientError without the test of scheduledRecovery[clientID]
HandlerSchedule_NoTest(h) ==
    /\ h.pc = "sched"
    /\ Free(mu)
    /\ LET delay == h.rt - now IN
            /\ scheduledRecovery' = scheduledRecovery \cup {h.client}
            /\ timers' = BagAdd(timers, [client |-> h.client,
                                         at |-> now + (IF delay > 0 THEN delay ELSE 0)])
    /\ handlers' = BagRemove(handlers, h)
    /\ UNCHANGED <<serviceVars, history, directVars, now, upstream, clientVars, healthy, unhealthy, mu, currentIndex,
                   calls, recoveries, sweep, tickerC, stop>>

\* the critical section that tests and sets scheduledRecovery[clientID] and
\* computes delay := time.Until(recoveryTime), then time.AfterFunc(delay, ..)
\* (a timer with a delay <= 0 is due at once).  Arming the timer is local to
\* the goroutine, and a timer may fire any time after it is due, so the
\* arming is part of this step.
HandlerSchedule(h) ==
    /\ h.pc = "sched"
    /\ Free(mu)
    /\ IF h.client \in scheduledRecovery
       THEN UNCHANGED <<scheduledRecovery, timers>>
       ELSE LET delay == h.rt - now IN
            /\ scheduledRecovery' = scheduledRecovery \cup {h.client}
            /\ timers' = BagAdd(timers, [client |-> h.client,
                                         at |-> now + (IF delay > 0 THEN delay ELSE 0)])
    /\ handlers' = BagRemove(handlers, h)
    /\ UNCHANGED <<serviceVars, history, directVars, now, upstream, clientVars, healthy, unhealthy, mu, currentIndex,
                   calls, recoveries, sweep, tickerC, stop>>

(***************************************************************************)
(* Router.checkAndRecoverClient, started by a timer that fires             *)
(***************************************************************************)
\* checkAndRecoverClient without delete(r.scheduledRecovery, clientID)
TimerFire_KeepsFlag(t) ==
    /\ now >= t.at
    /\ Free(mu)
    /\ timers' = BagRemove(timers, t)
    /\ UNCHANGED scheduledRecovery
    /\ IF t.client \in unhealthy
       THEN /\ Goroutines < MaxGoroutines
            /\ recoveries' = BagAdd(recoveries,
                                    [client |-> t.client, pc |-> "gate"])
       ELSE UNCHANGED recoveries
    /\ UNCHANGED <<serviceVars, history, directVars, now, upstream, clientVars, healthy, unhealthy, mu, currentIndex,
                   calls, handlers, sweep, tickerC, stop>>


\* checkAndRecoverClient that keeps r.mu locked while it probes (a deferred
\* Unlock instead of the explicit one)
TimerFire_UnderLock(t) ==
    /\ now >= t.at
    /\ Free(mu)
    /\ timers' = BagRemove(timers, t)
    /\ scheduledRecovery' = scheduledRecovery \ {t.client}
    /\ mu' = mu \cup {Recoverer(t.client)}
    /\ IF t.client \in unhealthy
       THEN /\ Goroutines < MaxGoroutines
            /\ recoveries' = BagAdd(recoveries,
                                    [client |-> t.client, pc |-> "gate"])
       ELSE UNCHANGED recoveries
    /\ UNCHANGED <<serviceVars, history, directVars, now, upstream, clientVars, healthy, unhealthy, currentIndex,
                   calls, handlers, sweep, tickerC, stop>>


\* the timer fires and the first critical section runs: the flag is
\* deleted and the client is looked up in unhealthy
TimerFire(t) ==
    /\ now >= t.at
    /\ Free(mu)
    /\ timers' = BagRemove(timers, t)
    /\ scheduledRecovery' = scheduledRecovery \ {t.client}
    /\ IF t.client \in unhealthy
       THEN /\ Goroutines < MaxGoroutines
            /\ recoveries' = BagAdd(recoveries,
                                    [client |-> t.client, pc |-> "gate"])
       ELSE UNCHANGED recoveries
    /\ UNCHANGED <<serviceVars, history, directVars, now, upstream, clientVars, healthy, unhealthy, mu, currentIndex,
                   calls, handlers, sweep, tickerC, stop>>

\* client.Health: checkHealthStatus (in Health and again in do); a cooling
\* client fails the probe without an upstream call
RecoveryGate(r) ==
    /\ r.pc = "gate"
    /\ Free(cmu[r.client])
    /\ IF checkHealthStatus(r.client)
       THEN recoveries' = BagAdd(BagRemove(recoveries, r), [r EXCEPT !.pc = "wire"])
       ELSE recoveries' = BagRemove(recoveries, r)
    /\ UNCHANGED <<serviceVars, history, directVars, now, upstream, clientVars, routerVars, calls, handlers, timers,
                   sweep, tickerC, stop>>

\* client.Health: HelpGetConfig returns; an error goes through handleError
\* and the client remains unhealthy
RecoveryReturn(r) ==
    /\ r.pc = "wire"
    /\ IF upstream[r.client] = "ok"
       THEN /\ recoveries' = BagAdd(BagRemove(recoveries, r),
                                    [r EXCEPT !.pc = "promote"])
            /\ UNCHANGED clientVars
       ELSE \E err \in UpstreamErrors :
               /\ handleError(r.client, err)
               /\ recoveries' = BagRemove(recoveries, r)
    /\ UNCHANGED <<serviceVars, history, directVars, now, upstream, routerVars, calls, handlers, timers, sweep, tickerC, stop>>

\* r.setClientHealthy(clientID) after a probe that returned nil
RecoveryPromote(r) ==
    /\ r.pc = "promote"
    /\ setClientHealthy(r.client)
    /\ recoveries' = BagRemove(recoveries, r)
    /\ UNCHANGED <<serviceVars, history, directVars, now, upstream, clientVars, scheduledRecovery, currentIndex,
                   calls, handlers, timers, sweep, tickerC, stop>>

(***************************************************************************)
(* Router.healthCheckLoop and Router.checkUnhealthyClients                 *)
(***************************************************************************)
\* the ticker puts a tick in ticker.C; a tick is dropped when one is
\* already buffered; a stopped ticker sends no more ticks
TickerFire ==
    /\ stop = "no"
    /\ tickerC = 0
    /\ tickerC' = 1
    /\ UNCHANGED <<serviceVars, history, directVars, now, upstream, clientVars, routerVars, calls, handlers, timers,
                   recoveries, sweep, stop>>

\* where the loop of checkUnhealthyClients goes after the id at the head
NextID(sw) ==
    IF Len(sw.ids) > 1
    THEN [pc |-> "lookup", ids |-> Tail(sw.ids)]
    ELSE [pc |-> "select", ids |-> <<>>]

\* case t := <-r.ticker.C, then the first critical section of
\* checkUnhealthyClients: the ids of unhealthy are copied (in map order)
SweepStart ==
    /\ sweep.pc = "select"
    /\ tickerC = 1
    /\ tickerC' = 0
    /\ Free(mu)
    /\ IF unhealthy = {}
       THEN UNCHANGED sweep
       ELSE \E idsToCheck \in Orders(unhealthy) :
               sweep' = [pc |-> "lookup", ids |-> idsToCheck]
    /\ UNCHANGED <<serviceVars, history, directVars, now, upstream, clientVars, routerVars, calls, handlers, timers,
                   recoveries, stop>>

\* client, ok := r.unhealthy[id]; if !ok { continue }
SweepLookup ==
    /\ sweep.pc = "lookup"
    /\ Free(mu)
    /\ IF Head(sweep.ids) \in unhealthy
       THEN sweep' = [sweep EXCEPT !.pc = "gate"]
       ELSE sweep' = NextID(sweep)
    /\ UNCHANGED <<serviceVars, history, directVars, now, upstream, clientVars, routerVars, calls, handlers, timers,
                   recoveries, tickerC, stop>>

\* client.Health: checkHealthStatus
SweepGate ==
    /\ sweep.pc = "gate"
    /\ Free(cmu[Head(sweep.ids)])
    /\ IF checkHealthStatus(Head(sweep.ids))
       THEN sweep' = [sweep EXCEPT !.pc = "wire"]
       ELSE sweep' = NextID(sweep)
    /\ UNCHANGED <<serviceVars, history, directVars, now, upstream, clientVars, routerVars, calls, handlers, timers,
                   recoveries, tickerC, stop>>

\* client.Health: HelpGetConfig returns
SweepReturn ==
    /\ sweep.pc = "wire"
    /\ LET c == Head(sweep.ids) IN
       IF upstream[c] = "ok"
       THEN /\ sweep' = [sweep EXCEPT !.pc = "promote"]
            /\ UNCHANGED clientVars
       ELSE \E err \in UpstreamErrors :
               /\ handleError(c, err)
               /\ sweep' = NextID(sweep)
    /\ UNCHANGED <<serviceVars, history, directVars, now, upstream, routerVars, calls, handlers, timers, recoveries,
                   tickerC, stop>>

\* checkUnhealthyClients that goes on to the next id after a successful
\* probe without r.setClientHealthy(id)
SweepPromote_NoMove ==
    /\ sweep.pc = "promote"
    /\ sweep' = NextID(sweep)
    /\ UNCHANGED <<serviceVars, history, directVars, now, upstream, clientVars, routerVars,
                   calls, handlers, timers, recoveries, tickerC, stop>>

\* r.setClientHealthy(id)
SweepPromote ==
    /\ sweep.pc = "promote"
    /\ setClientHealthy(Head(sweep.ids))
    /\ sweep' = NextID(sweep)
    /\ UNCHANGED <<serviceVars, history, directVars, now, upstream, clientVars, scheduledRecovery, currentIndex,
                   calls, handlers, timers, recoveries, tickerC, stop>>

\* case <-r.done: return (and wg.Done)
LoopExit ==
    /\ sweep.pc = "select"
    /\ stop # "no"
    /\ sweep' = [sweep EXCEPT !.pc = "exited"]
    /\ UNCHANGED <<serviceVars, history, directVars, now, upstream, clientVars, routerVars, calls, handlers, timers,
                   recoveries, tickerC, stop>>

(***************************************************************************)
(* Router.Stop                                                             *)
(***************************************************************************)
\* r.ticker.Stop(); close(r.done); then the caller blocks in r.wg.Wait()
Stop ==
    /\ stop = "no"
    /\ stop' = "waiting"
    /\ UNCHANGED <<serviceVars, history, directVars, now, upstream, clientVars, routerVars, calls, handlers, timers,
                   recoveries, sweep, tickerC>>

\* Stop that does not wait for the loop (no r.wg.Wait())
StopReturn_NoWait ==
    /\ stop = "waiting"
    /\ stop' = "returned"
    /\ UNCHANGED <<serviceVars, history, directVars, now, upstream, clientVars, routerVars, calls, handlers, timers,
                   recoveries, sweep, tickerC>>

\* r.wg.Wait() returns once healthCheckLoop has returned
StopReturn ==
    /\ stop = "waiting"
    /\ sweep.pc = "exited"
    /\ stop' = "returned"
    /\ UNCHANGED <<serviceVars, history, directVars, now, upstream, clientVars, routerVars, calls, handlers, timers,
                   recoveries, sweep, tickerC>>

(***************************************************************************)
(* The specification                                                       *)
(***************************************************************************)
Next ==
    \/ Tick
    \/ \E c \in Clients : SetUpstream(c)
    \/ GetClient
    \/ \E call \in BagToSet(calls) : CallGate(call)
    \/ \E call \in BagToSet(calls) : CallReturn(call)
    \/ \E h \in BagToSet(handlers) : HandlerMove(h)
    \/ \E h \in BagToSet(handlers) : HandlerCheck(h)
    \/ \E h \in BagToSet(handlers) : HandlerSchedule(h)
    \/ \E t \in BagToSet(timers) : TimerFire(t)
    \/ \E r \in BagToSet(recoveries) : RecoveryGate(r)
    \/ \E r \in BagToSet(recoveries) : RecoveryReturn(r)
    \/ \E r \in BagToSet(recoveries) : RecoveryPromote(r)
    \/ TickerFire
    \/ SweepStart
    \/ SweepLookup
    \/ SweepGate
    \/ SweepReturn
    \/ SweepPromote
    \/ LoopExit
    \/ Stop
    \/ StopReturn

Spec == Init /\ [][Next]_vars

\* The healthCheckLoop goroutine is scheduled and its ticker keeps ticking
\* until it is stopped; a probe returns (with a result or an error).
\* Nothing is assumed about callers, handlers, timers or the clock.
Fairness ==
    /\ WF_vars(TickerFire)
    /\ WF_vars(SweepStart)
    /\ WF_vars(SweepLookup)
    /\ WF_vars(SweepGate)
    /\ WF_vars(SweepReturn)
    /\ WF_vars(SweepPromote)
    /\ WF_vars(LoopExit)

\* the fair specification runs the program with at most LiveGoroutines
\* goroutines besides healthCheckLoop
FairNext ==
    \/ Tick
    \/ \E c \in Clients : SetUpstream(c)
    \/ GetClient /\ Goroutines' <= LiveGoroutines
    \/ \E call \in BagToSet(calls) : CallGate(call)
    \/ \E call \in BagToSet(calls) : CallReturn(call)
    \/ \E h \in BagToSet(handlers) : HandlerMove(h)
    \/ \E h \in BagToSet(handlers) : HandlerCheck(h)
    \/ \E h \in BagToSet(handlers) : HandlerSchedule(h)
    \/ \E t \in BagToSet(timers) : TimerFire(t) /\ Goroutines' <= LiveGoroutines
    \/ \E r \in BagToSet(recoveries) : RecoveryGate(r)
    \/ \E r \in BagToSet(recoveries) : RecoveryReturn(r)
    \/ \E r \in BagToSet(recoveries) : RecoveryPromote(r)
    \/ TickerFire
    \/ SweepStart
    \/ SweepLookup
    \/ SweepGate
    \/ SweepReturn
    \/ SweepPromote
    \/ LoopExit
    \/ Stop
    \/ StopReturn

FairSpec == Init /\ [][FairNext]_vars /\ Fairness

\* the same program, with the handlers' history recorded
SpecHistory == InitHistory /\ [][Next]_vars

\* the handlers, timers and recovery bodies of client c
HandlersOf(c)   == {h \in BagToSet(handlers) : h.client = c}
TimersOf(c)     == {t \in BagToSet(timers) : t.client = c}
RecoveriesOf(c) == {r \in BagToSet(recoveries) : r.client = c}

(***************************************************************************)
(* C1: in every reachable state no client id is in both Router.healthy and *)
(* Router.unhealthy.                                                       *)
(***************************************************************************)
C1_PoolsDisjoint == healthy \cap unhealthy = {}

\* a client is in unhealthy while the sweep and a recovery timer have both
\* probed it with success and are both about to promote it
C1_Witness ==
    \E c \in unhealthy :
        /\ sweep.pc = "promote" /\ Head(sweep.ids) = c
        /\ \E r \in RecoveriesOf(c) : r.pc = "promote"

(***************************************************************************)
(* C2: for every client, at most one recovery timer is armed and has not   *)
(* fired.                                                                  *)
(***************************************************************************)
C2_OneTimerPerClient ==
    \A c \in Clients :
        BagCardinality([t \in TimersOf(c) |-> CopiesIn(t, timers)]) <= 1

\* a timer is armed for a client and another handler of the same client has
\* reached the test of scheduledRecovery
C2_Witness ==
    \E c \in Clients :
        /\ TimersOf(c) # {}
        /\ c \in scheduledRecovery
        /\ \E h \in HandlersOf(c) : h.pc = "sched"

(***************************************************************************)
(* C3: when the error handler completes for a client that was healthy when *)
(* it started, whose RPC returned a cool-down error and whose              *)
(* recovery_time lies in the future, the client is in unhealthy, not in    *)
(* healthy, and in scheduledRecovery.                                      *)
(***************************************************************************)
C3_HandlerLeavesUnhealthyScheduled ==
    [][\A h \in BagToSet(handlers) :
          (HandlerSchedule(h) /\ h.cooldown /\ ~h.preUnhealthy /\ h.rt > now)
          => /\ h.client \in unhealthy'
             /\ h.client \notin healthy'
             /\ h.client \in scheduledRecovery']_vars

(***************************************************************************)
(* C4 as stated: when the recovery timer has fired and its probe has       *)
(* succeeded, the client ends in healthy, not in unhealthy, and its        *)
(* scheduledRecovery flag is clear.                                        *)
(***************************************************************************)
C4_PromotedAndFlagClear ==
    [][\A r \in BagToSet(recoveries) :
          RecoveryPromote(r)
          => /\ r.client \in healthy'
             /\ r.client \notin unhealthy'
             /\ r.client \notin scheduledRecovery']_vars

(***************************************************************************)
(* C4 amended: the timer clears the scheduledRecovery flag when it fires,  *)
(* before the probe; when the probe has succeeded the client ends in       *)
(* healthy and not in unhealthy; and the flag is set again only by an      *)
(* error handler that schedules a new recovery.                            *)
(***************************************************************************)
C4_FlagClearedAtFireThenPromoted ==
    [][/\ \A t \in BagToSet(timers) :
             TimerFire(t) => t.client \notin scheduledRecovery'
       /\ \A r \in BagToSet(recoveries) :
             RecoveryPromote(r) => r.client \in healthy' /\ r.client \notin unhealthy'
       /\ \A c \in Clients :
             (c \notin scheduledRecovery /\ c \in scheduledRecovery')
             => \E h \in HandlersOf(c) : HandlerSchedule(h)]_vars

\* the timer has fired, the flag is clear, the probe has succeeded and the
\* client is still in unhealthy, about to be promoted
C4_Witness ==
    \E c \in unhealthy :
        /\ c \notin scheduledRecovery
        /\ \E r \in RecoveriesOf(c) : r.pc = "promote"

(***************************************************************************)
(* C5 as stated: an error handler that starts for a client that is already *)
(* in unhealthy or already has a recovery scheduled is a no-op; so its     *)
(* first step, the move, changes neither map nor scheduledRecovery and     *)
(* arms no timer.                                                          *)
(***************************************************************************)
C5_HandlerNoOp ==
    [][\A h \in BagToSet(handlers) :
          (HandlerMove(h)
              /\ (h.client \in unhealthy \/ h.client \in scheduledRecovery))
          => UNCHANGED <<healthy, unhealthy, scheduledRecovery, timers>>]_vars

(***************************************************************************)
(* C5 amended: the handler's move changes neither map when the client is   *)
(* already in unhealthy, and the handler's scheduling changes              *)
(* scheduledRecovery not and arms no timer when the client already has a   *)
(* recovery scheduled; neither step changes anything else of the router.   *)
(***************************************************************************)
C5_HandlerStepNoOp ==
    [][\A h \in BagToSet(handlers) :
          /\ (HandlerMove(h) /\ h.client \in unhealthy)
             => UNCHANGED <<healthy, unhealthy, scheduledRecovery, timers>>
          /\ (HandlerSchedule(h) /\ h.client \in scheduledRecovery)
             => UNCHANGED <<healthy, unhealthy, scheduledRecovery, timers>>]_vars

\* a handler is about to schedule for a client that is in unhealthy and
\* already has its recovery scheduled and its timer armed
C5_Witness ==
    \E c \in unhealthy :
        /\ c \in scheduledRecovery
        /\ TimersOf(c) # {}
        /\ \E h \in HandlersOf(c) : h.pc = "sched" /\ h.rt >= now

\* a health probe of client c would succeed: the client is not cooling and
\* the upstream answers
ProbeSucceeds(c) == checkHealthStatus(c) /\ upstream[c] = "ok"

(***************************************************************************)
(* C6: a client in unhealthy whose health probe succeeds from some point   *)
(* on is eventually in healthy, as long as the router is not stopped; only *)
(* the health-check loop is assumed to run.                                *)
(***************************************************************************)
C6_LoopEventuallyPromotes ==
    \A c \in Clients :
        (<>[]ProbeSucceeds(c) /\ [](stop = "no"))
        => [](c \in unhealthy => <>(c \in healthy))

\* the loop has probed with success a client of unhealthy that has no
\* recovery timer and no recovery in progress, and is about to promote it
C6_Witness ==
    \E c \in unhealthy :
        /\ stop = "no"
        /\ ProbeSucceeds(c)
        /\ TimersOf(c) = {} /\ RecoveriesOf(c) = {}
        /\ sweep.pc = "promote" /\ Head(sweep.ids) = c

Wrapped(opErr) == <<opErr[1], opErr[2], "runner exited">>

\* the caller invokes an RPC: checkHealthStatus runs first, and a cooling
\* client answers ErrFloodWaitActive without calling the upstream
ClientDo(i, c) ==
    /\ rpcs[i].pc = "idle"
    /\ Free(cmu[c])
    /\ IF checkHealthStatus(c)
       THEN rpcs' = [rpcs EXCEPT ![i] = [pc |-> "wire", client |-> c, err |-> NoError]]
       ELSE rpcs' = [rpcs EXCEPT ![i] = [pc |-> "done", client |-> c,
                                         err |-> ErrFloodWaitActive]]
    /\ UNCHANGED <<serviceVars, history, now, upstream, clientVars, routerVars, procVars, runErr>>

\* f(ctx) returns: nil, or an error that goes through handleError; then the
\* non-blocking receive on runErr decides which error do returns
ClientReturn(i) ==
    /\ rpcs[i].pc = "wire"
    /\ LET c == rpcs[i].client IN
       IF upstream[c] = "ok"
       THEN /\ rpcs' = [rpcs EXCEPT ![i].pc = "done"]
            /\ UNCHANGED <<clientVars, runErr>>
       ELSE \E opErr \in UpstreamErrors :
               /\ handleError(c, opErr)
               /\ IF runErr[c] = "failed"
                  THEN /\ runErr' = [runErr EXCEPT ![c] = "closed"]
                       /\ rpcs' = [rpcs EXCEPT ![i].pc = "done", ![i].err = Wrapped(opErr)]
                  ELSE /\ UNCHANGED runErr
                       /\ rpcs' = [rpcs EXCEPT ![i].pc = "done", ![i].err = opErr]
    /\ UNCHANGED <<serviceVars, history, now, upstream, routerVars, procVars>>

\* the caller takes the result
ClientTake(i) ==
    /\ rpcs[i].pc = "done"
    /\ rpcs' = [rpcs EXCEPT ![i] = IdleRPC]
    /\ UNCHANGED <<serviceVars, history, now, upstream, clientVars, routerVars, procVars, runErr>>

\* the goroutine of Client.Start: tgRunner.Run returns, the error is sent
\* to runErr and the channel is closed
RunnerExit(c) ==
    /\ runErr[c] = "open"
    /\ runErr' = [runErr EXCEPT ![c] = "failed"]
    /\ UNCHANGED <<serviceVars, history, now, upstream, clientVars, routerVars, procVars, rpcs>>

NextClient ==
    \/ Tick
    \/ \E c \in Clients : SetUpstream(c)
    \/ \E i \in 1..MaxRPCs, c \in Clients : ClientDo(i, c)
    \/ \E i \in 1..MaxRPCs : ClientReturn(i)
    \/ \E i \in 1..MaxRPCs : ClientTake(i)
    \/ \E c \in Clients : RunnerExit(c)

SpecClient == Init /\ [][NextClient]_vars

\* the client is cooling: a cool-down error was recorded and the clock has
\* not reached recovery_time
Cooling(c) == unhealthyUntil[c] # ZeroTime /\ now < unhealthyUntil[c]

(***************************************************************************)
(* C8: an RPC invoked while the client is cooling is rejected with          *)
(* ErrFloodWaitActive and does not reach the upstream; an RPC invoked when  *)
(* the clock has reached recovery_time (or none was ever set) is issued     *)
(* upstream, with no reset from outside.                                    *)
(***************************************************************************)
C8_CoolingRejectsThenReopens ==
    [][\A i \in 1..MaxRPCs :
          (rpcs[i].pc = "idle" /\ rpcs'[i].pc # "idle") =>
              IF Cooling(rpcs'[i].client)
              THEN rpcs'[i].pc = "done" /\ rpcs'[i].err = ErrFloodWaitActive
              ELSE rpcs'[i].pc = "wire"]_vars

\* one RPC was rejected while the client was cooling, and another one is on
\* the wire after the clock has reached the recovery_time that was set
C8_Witness ==
    \E i, j \in 1..MaxRPCs :
        /\ rpcs[i].pc = "done" /\ rpcs[i].err = ErrFloodWaitActive
        /\ rpcs[j].pc = "wire"
        /\ unhealthyUntil[rpcs[j].client] # ZeroTime
        /\ now >= unhealthyUntil[rpcs[j].client]
        /\ rpcs[i].client = rpcs[j].client

(***************************************************************************)
(* C9: recovery_time never decreases, whatever the order in which          *)
(* concurrently in-flight RPCs return their cool-down errors.              *)
(***************************************************************************)
C9_Monotone ==
    [][\A c \in Clients : unhealthyUntil'[c] >= unhealthyUntil[c]]_vars

(***************************************************************************)
(* C10: when an RPC returns an error that matches FLOOD_WAIT (N),          *)
(* recovery_time becomes the instant the error is handled plus N,          *)
(* whatever it was before.                                                 *)
(***************************************************************************)
C10_LatestErrorWins ==
    [][\A i \in 1..MaxRPCs :
          (rpcs[i].pc = "wire" /\ rpcs'[i].pc = "done" /\ parseFloodWait(rpcs'[i].err).ok)
          => unhealthyUntil'[rpcs[i].client] = now + parseFloodWait(rpcs'[i].err).seconds]_vars

\* two cool-down errors have been handled, and recovery_time is the one
\* computed from the smaller N
C10_Witness ==
    \E i, j \in 1..MaxRPCs :
        /\ rpcs[i].pc = "done" /\ rpcs[j].pc = "done"
        /\ rpcs[i].client = rpcs[j].client
        /\ parseFloodWait(rpcs[i].err).ok /\ parseFloodWait(rpcs[j].err).ok
        /\ parseFloodWait(rpcs[i].err).seconds > parseFloodWait(rpcs[j].err).seconds
        /\ unhealthyUntil[rpcs[i].client] = now + parseFloodWait(rpcs[j].err).seconds

(***************************************************************************)
(* Part 2: the enrichment engine (internal/core/services,                  *)
(* EnrichmentService).                                                     *)
(*                                                                         *)
(* One run of Enrich is modelled: the goroutine of Enrich itself, the      *)
(* workers of its pool, the context of the run and the two channels.  The  *)
(* router and the upstream are the interfaces ports.Router and             *)
(* ports.TelegramClient of the code: what they answer is an input of the   *)
(* step that asks them.  A step of a goroutine runs from one blocking      *)
(* point of the code (a select, a sleep, an RPC in flight) to the next.    *)
(***************************************************************************)
\* the longest participants argument of Enrich
MaxParticipants == 2
\* Config.PoolSize: the workers of the pool
PoolSize == 2
\* attempts and emitted stop counting here
MaxCount == 2
\* the longest participants argument of Enrich in the fair specifications
LiveParticipants == 1
\* the workers of the pool when the attempts are recorded
LivePool == 1

\* domain.RawParticipant (the Name is left out: no decision reads it)
RawParticipants ==
    { [UserID |-> "",      Username |-> ""],
      [UserID |-> "user1", Username |-> ""],
      [UserID |-> "",      Username |-> "alice"],
      [UserID |-> "",      Username |-> "@alice"] }

\* the participants arguments of Enrich
Inputs == UNION {[1..n -> RawParticipants] : n \in 0..MaxParticipants}

\* errors are chains of messages: the message of an error followed by the
\* chain of the error it wraps; nil is the empty chain
nil == <<>>
ErrParticipantNotResolved == "participant not resolvable"
DeadlineExceeded == "context deadline exceeded"
Canceled == "context canceled"
ErrNoClients == "no healthy clients available"
APIError == "API_ERROR"

\* fmt.Errorf("msg: %w", err)
Errorf(msg, err) == <<msg>> \o err

\* errors.Is(err, target)
ErrorsIs(err, target) == \E i \in DOMAIN err : err[i] = target

RECURSIVE ErrorsJoin(_)
\* errors.Join(errs...): every chain of errs is part of the result
ErrorsJoin(errs) ==
    IF errs = <<>> THEN nil ELSE Head(errs) \o ErrorsJoin(Tail(errs))

\* domain.User{} and the users the run can produce (ID and Username only)
NoUser == [ID |-> 0, Username |-> ""]

\* the key of the deduplication of the input: UserID, else Username
DedupKey(p) == IF p.UserID # "" THEN p.UserID ELSE p.Username

RECURSIVE Dedup(_, _, _)
\* the loop over the participants: seen is the map of the keys met so far
Dedup(ps, seen, acc) ==
    IF ps = <<>> THEN acc
    ELSE LET p == Head(ps)
             key == DedupKey(p)
         IN  IF key = "" THEN Dedup(Tail(ps), seen, Append(acc, p))
             ELSE IF key \in seen THEN Dedup(Tail(ps), seen, acc)
             ELSE Dedup(Tail(ps), seen \cup {key}, Append(acc, p))

\* the participants Enrich works on
uniqueParticipants(ps) == Dedup(ps, {}, <<>>)

\* strings.TrimPrefix(username, "@")
cleanUsername(username) == IF username = "@alice" THEN "alice" ELSE username

\* strconv.ParseInt(strings.TrimPrefix(UserID, "user"), 10, 64)
ParseUserID(userID) == IF userID = "user1" THEN 1 ELSE 0
\* the error of that ParseInt: the rest of the id is no decimal number
parseErr(userID) == IF userID = "user1" THEN nil ELSE <<"invalid syntax">>

\* the non-zero ids of the users of the run
UserIDs == {1}

\* the tg.User the upstream knows under a username
TgUser(username) == [ID |-> 1, Username |-> username]

\* what one ContactsResolveUsername can come back with: a user, no users
\* at all, a first entry that is not a *tg.User, an error
ResolveAnswers == {"user", "none", "notuser", "error"}
\* what one UsersGetFullUser can come back with
FullAnswers == {"full", "error"}
Answers(op) == IF op = "resolve" THEN ResolveAnswers ELSE FullAnswers
\* what router.GetClient can come back with
RouterAnswers == {"client", "error"}

\* executeOperation, from the top of its loop to the call of fn: where the
\* caller is next ("return" with err, "pause" in the retry sleep, "rpc"
\* with fn in flight); got is the answer of router.GetClient
executeOperation_SurfacesRouterError(got) ==
    IF ctx # "live" THEN [to |-> "return", err |-> <<ctx>>]
    ELSE IF got = "error" THEN [to |-> "return", err |-> <<ErrNoClients>>]
    ELSE [to |-> "rpc", err |-> nil]

executeOperation(got) ==
    IF ctx # "live" THEN [to |-> "return", err |-> <<ctx>>]
    ELSE IF got = "error" THEN [to |-> "pause", err |-> nil]
    ELSE [to |-> "rpc", err |-> nil]

\* executeOperation when the context ends during the retry sleep
executeOperationDone == Errorf("get client: context done", <<ctx>>)

\* executeOperation when fn returns opErr
executeOperationFailed(opErr) == Errorf("API operation failed", opErr)

\* resolveByUsername after executeOperation returned: the user and the error
resolveByUsername(answer, username) ==
    CASE answer = "error" -> [user |-> NoUser, err |-> executeOperationFailed(<<APIError>>)]
      [] answer = "none" ->
            [user |-> NoUser,
             err |-> <<ErrParticipantNotResolved, "username not found or resolved to non-user">>]
      [] answer = "notuser" -> [user |-> NoUser, err |-> <<"resolved peer is not a user">>]
      [] OTHER -> [user |-> TgUser(cleanUsername(username)), err |-> nil]

\* the error enrichParticipant returns when the operation op failed with err
enrichError(op, err) ==
    IF op = "resolve" THEN Errorf("failed to resolve participant", err)
    ELSE Errorf("failed to get full user info", err)

\* enrichResult
Result(user, err, isSet) == [user |-> user, err |-> err, isSet |-> isSet]

\* the worker on the outcome (user, err) of enrichParticipant: the result
\* it sends, or requeue
workerOutcome_DropsFailed(user, err) ==
    IF err = nil THEN [requeue |-> FALSE, res |-> Result(user, nil, TRUE)]
    ELSE IF ErrorsIs(err, ErrParticipantNotResolved) \/ ctx = "live"
    THEN [requeue |-> FALSE, res |-> Result(NoUser, nil, FALSE)]
    ELSE [requeue |-> FALSE, res |-> Result(NoUser, err, FALSE)]

workerOutcome(user, err) ==
    IF err = nil THEN [requeue |-> FALSE, res |-> Result(user, nil, TRUE)]
    ELSE IF ErrorsIs(err, ErrParticipantNotResolved)
    THEN [requeue |-> FALSE, res |-> Result(NoUser, nil, FALSE)]
    ELSE IF ctx # "live" THEN [requeue |-> FALSE, res |-> Result(NoUser, err, FALSE)]
    ELSE [requeue |-> TRUE, res |-> Result(NoUser, nil, FALSE)]

\* the branch of the collecting loop on a set result: is the user collected
\* apart from the map
isUnidentified_Always(user) == TRUE

isUnidentified(user) == user.ID = 0

\* the collecting loop on a user with a non-zero ID: the map afterwards
mergeUser_LastWins(m, user) == (user.ID :> user) @@ m

mergeUser(m, user) ==
    IF user.Username # "" THEN (user.ID :> user) @@ m
    ELSE IF user.ID \in DOMAIN m THEN m
    ELSE (user.ID :> user) @@ m

\* the slices Enrich can build from the map and the unidentified users
\* (the iteration order of a map is not fixed)
enrichedUsers ==
    {[i \in DOMAIN o |-> enrichedUsersMap[o[i]]] \o unidentifiedUsers :
        o \in Orders(DOMAIN enrichedUsersMap)}

Inc(n) == IF n < MaxCount THEN n + 1 ELSE n

\* the positions of a worker: pc is where it is, p the participant it
\* holds, op the operation it runs, answer what the RPC it waits for will
\* come back with.  A worker in its select, one that has not been started,
\* one that returned:
IdleWorker == [pc |-> "select", p |-> 0, op |-> "", answer |-> ""]
NewWorker == [pc |-> "new", p |-> 0, op |-> "", answer |-> ""]
ExitedWorker == [pc |-> "exited", p |-> 0, op |-> "", answer |-> ""]

\* a bag of n copies of e
Copies(n, e) == IF n = 0 THEN EmptyBag ELSE [x \in {e} |-> n]

\* the run has not started: the pool is configured with pool workers, the
\* argument of Enrich is chosen among the lists of at most maxLen
\* participants
EnrichConfigured(maxLen, pool, hist) ==
    /\ InitState
    /\ history = hist
    /\ upstream = [c \in Clients |-> "ok"]
    /\ participants \in {ps \in Inputs : Len(ps) <= maxLen}
    /\ tasks = <<>>
    /\ tasksClosed = FALSE
    /\ results = <<>>
    /\ workers = Copies(pool, NewWorker)
    /\ ctx = "live"
    /\ enrichedUsersMap = <<>>
    /\ unidentifiedUsers = <<>>
    /\ processingErrors = <<>>
    /\ finishedCount = 0
    /\ epc = "idle"
    /\ ret = <<>>
    /\ attempts = <<>>
    /\ emitted = <<>>
    /\ deadlineEarly = FALSE
    /\ StoreIdle
    /\ CacheIdle
    /\ ProcessIdle

InitEnrich == EnrichConfigured(MaxParticipants, PoolSize, FALSE)

\* Enrich up to its collecting loop: the input is deduplicated, the
\* context gets its deadline, the workers are started and the queue filled
EnrichStart ==
    /\ epc = "idle"
    /\ workers # EmptyBag
    /\ IF Len(participants) = 0
       THEN /\ epc' = "returned"
            /\ ret' = [users |-> <<>>, err |-> nil]
            /\ UNCHANGED <<participants, tasks, workers, attempts, emitted>>
       ELSE LET unique == uniqueParticipants(participants) IN
            /\ epc' = "collect"
            /\ participants' = unique
            /\ tasks' = [i \in 1..Len(unique) |-> i]
            /\ workers' = Copies(BagCardinality(workers), IdleWorker)
            /\ attempts' = [i \in 1..Len(unique) |-> 0]
            /\ emitted' = [i \in 1..Len(unique) |-> 0]
            /\ UNCHANGED ret
    /\ UNCHANGED <<tasksClosed, results, ctx, enrichedUsersMap, unidentifiedUsers,
                   processingErrors, finishedCount, deadlineEarly, telegramVars, storeVars, cacheVars, processVars, wrapped, paged>>

\* the timer of context.WithTimeout(ctx, cfg.TotalTimeout) fires
Deadline ==
    /\ epc \in {"collect", "wait"}
    /\ ctx = "live"
    /\ ctx' = DeadlineExceeded
    /\ deadlineEarly' = \E p \in DOMAIN emitted : emitted[p] = 0
    /\ UNCHANGED <<participants, tasks, tasksClosed, results, workers, enrichedUsersMap,
                   unidentifiedUsers, processingErrors, finishedCount, epc, ret,
                   attempts, emitted, telegramVars, storeVars, cacheVars, processVars, wrapped, paged>>

\* the caller of Enrich cancels the context it passed
Cancel ==
    /\ epc \in {"collect", "wait"}
    /\ ctx = "live"
    /\ ctx' = Canceled
    /\ deadlineEarly' = \E p \in DOMAIN emitted : emitted[p] = 0
    /\ UNCHANGED <<participants, tasks, tasksClosed, results, workers, enrichedUsersMap,
                   unidentifiedUsers, processingErrors, finishedCount, epc, ret,
                   attempts, emitted, telegramVars, storeVars, cacheVars, processVars, wrapped, paged>>

\* the pool after one worker at wk moved to next
Moved(wk, next) == BagAdd(BagRemove(workers, wk), next)

\* channels made with one slot less than there are participants
Finish_SmallerChannels(wk, p, q, user, err) ==
    LET out == workerOutcome(user, err) IN
    /\ workers' = Moved(wk, IdleWorker)
    /\ IF out.requeue
       THEN /\ Len(q) < Len(participants) - 1
            /\ tasks' = Append(q, p)
            /\ UNCHANGED <<results, emitted>>
       ELSE /\ Len(results) < Len(participants) - 1
            /\ tasks' = q
            /\ results' = Append(results, out.res)
            /\ emitted' = [emitted EXCEPT ![p] = Inc(@)]

\* a worker that sends an empty result for a participant it puts back
Finish_RequeuesAndSends(wk, p, q, user, err) ==
    LET out == workerOutcome(user, err) IN
    /\ workers' = Moved(wk, IdleWorker)
    /\ Len(results) < Len(participants)
    /\ results' = Append(results, out.res)
    /\ emitted' = [emitted EXCEPT ![p] = Inc(@)]
    /\ IF out.requeue
       THEN /\ Len(q) < Len(participants)
            /\ tasks' = Append(q, p)
       ELSE tasks' = q

\* the worker at wk is done with participant p, enrichParticipant returned
\* (user, err); q is the queue without what the worker took from it.  A
\* send on a full channel blocks.
Finish(wk, p, q, user, err) ==
    LET out == workerOutcome(user, err) IN
    /\ workers' = Moved(wk, IdleWorker)
    /\ IF out.requeue
       THEN /\ Len(q) < Len(participants)
            /\ tasks' = Append(q, p)
            /\ UNCHANGED <<results, emitted>>
       ELSE /\ Len(results) < Len(participants)
            /\ tasks' = q
            /\ results' = Append(results, out.res)
            /\ emitted' = [emitted EXCEPT ![p] = Inc(@)]

\* the worker at wk enters executeOperation for the operation op of
\* participant p
Lease(wk, p, q, op, got) ==
    LET l == executeOperation(got) IN
    IF l.to = "return"
    THEN Finish(wk, p, q, NoUser, enrichError(op, l.err))
    ELSE /\ \E answer \in IF l.to = "rpc" THEN Answers(op) ELSE {""} :
               workers' = Moved(wk, [pc |-> l.to, p |-> p, op |-> op, answer |-> answer])
         /\ tasks' = q
         /\ UNCHANGED <<results, emitted>>

\* the select of a worker receives a participant; enrichParticipant runs
\* up to its first RPC or to its end
WorkerTake(wk, got) ==
    /\ wk \in BagToSet(workers)
    /\ wk.pc = "select"
    /\ tasks # <<>>
    /\ LET p == Head(tasks)
           raw == participants[p]
       IN  /\ attempts' = IF history THEN [attempts EXCEPT ![p] = Inc(@)] ELSE attempts
           /\ IF raw.Username = "" /\ raw.UserID = ""
              THEN Finish(wk, p, Tail(tasks), NoUser, nil)
              ELSE IF raw.Username # ""
              THEN Lease(wk, p, Tail(tasks), "resolve", got)
              ELSE IF parseErr(raw.UserID) # nil
              THEN Finish(wk, p, Tail(tasks), NoUser,
                          Errorf("invalid user ID format", parseErr(raw.UserID)))
              ELSE Finish(wk, p, Tail(tasks), [ID |-> ParseUserID(raw.UserID), Username |-> ""], nil)
    /\ UNCHANGED <<participants, tasksClosed, ctx, enrichedUsersMap, unidentifiedUsers,
                   processingErrors, finishedCount, epc, ret, deadlineEarly, telegramVars, storeVars, cacheVars, processVars, wrapped, paged>>

\* the retry sleep of executeOperation ends: time.After fires and the loop
\* starts over, or ctx.Done() is ready and the helper gives up
WorkerPauseEnd(wk, got, timer) ==
    /\ wk \in BagToSet(workers)
    /\ wk.pc = "pause"
    /\ IF timer
       THEN Lease(wk, wk.p, tasks, wk.op, got)
       ELSE /\ ctx # "live"
            /\ Finish(wk, wk.p, tasks, NoUser, enrichError(wk.op, executeOperationDone))
    /\ UNCHANGED <<participants, tasksClosed, ctx, enrichedUsersMap, unidentifiedUsers,
                   processingErrors, finishedCount, epc, ret, attempts, deadlineEarly, telegramVars, storeVars, cacheVars, processVars, wrapped, paged>>

\* ContactsResolveUsername returns to resolveByUsername
WorkerResolved(wk, got) ==
    /\ wk \in BagToSet(workers)
    /\ wk.pc = "rpc"
    /\ wk.op = "resolve"
    /\ LET r == resolveByUsername(wk.answer, participants[wk.p].Username) IN
       IF r.err # nil
       THEN Finish(wk, wk.p, tasks, NoUser, enrichError("resolve", r.err))
       ELSE Lease(wk, wk.p, tasks, "full", got)
    /\ UNCHANGED <<participants, tasksClosed, ctx, enrichedUsersMap, unidentifiedUsers,
                   processingErrors, finishedCount, epc, ret, attempts, deadlineEarly, telegramVars, storeVars, cacheVars, processVars, wrapped, paged>>

\* UsersGetFullUser returns to getFullUserInfo
WorkerFullUser(wk) ==
    /\ wk \in BagToSet(workers)
    /\ wk.pc = "rpc"
    /\ wk.op = "full"
    /\ IF wk.answer = "error"
       THEN Finish(wk, wk.p, tasks, NoUser,
                   enrichError("full", executeOperationFailed(<<APIError>>)))
       ELSE Finish(wk, wk.p, tasks, TgUser(cleanUsername(participants[wk.p].Username)), nil)
    /\ UNCHANGED <<participants, tasksClosed, ctx, enrichedUsersMap, unidentifiedUsers,
                   processingErrors, finishedCount, epc, ret, attempts, deadlineEarly, telegramVars, storeVars, cacheVars, processVars, wrapped, paged>>

WorkerExit_OnlyWhenClosed(wk) ==
    /\ wk \in BagToSet(workers)
    /\ wk.pc = "select"
    /\ tasksClosed /\ tasks = <<>>
    /\ workers' = Moved(wk, ExitedWorker)
    /\ UNCHANGED <<participants, tasks, tasksClosed, results, ctx, enrichedUsersMap,
                   unidentifiedUsers, processingErrors, finishedCount, epc, ret, attempts,
                   emitted, deadlineEarly, telegramVars, storeVars, cacheVars, processVars, wrapped, paged>>

\* the select of a worker takes ctx.Done(); or it receives from the closed
\* and empty queue
WorkerExit(wk) ==
    /\ wk \in BagToSet(workers)
    /\ wk.pc = "select"
    /\ ctx # "live" \/ (tasksClosed /\ tasks = <<>>)
    /\ workers' = Moved(wk, ExitedWorker)
    /\ UNCHANGED <<participants, tasks, tasksClosed, results, ctx, enrichedUsersMap,
                   unidentifiedUsers, processingErrors, finishedCount, epc, ret, attempts,
                   emitted, deadlineEarly, telegramVars, storeVars, cacheVars, processVars, wrapped, paged>>

\* the select of Enrich receives a result
Collect ==
    /\ epc = "collect"
    /\ finishedCount < Len(participants)
    /\ results # <<>>
    /\ LET res == Head(results) IN
       /\ results' = Tail(results)
       /\ finishedCount' = finishedCount + 1
       /\ IF res.err # nil
          THEN /\ processingErrors' = Append(processingErrors, res.err)
               /\ UNCHANGED <<enrichedUsersMap, unidentifiedUsers>>
          ELSE IF res.isSet
          THEN IF isUnidentified(res.user)
               THEN /\ unidentifiedUsers' = Append(unidentifiedUsers, res.user)
                    /\ UNCHANGED <<enrichedUsersMap, processingErrors>>
               ELSE /\ enrichedUsersMap' = mergeUser(enrichedUsersMap, res.user)
                    /\ UNCHANGED <<unidentifiedUsers, processingErrors>>
          ELSE UNCHANGED <<enrichedUsersMap, unidentifiedUsers, processingErrors>>
    /\ UNCHANGED <<participants, tasks, tasksClosed, workers, ctx, epc, ret, attempts, emitted,
                   deadlineEarly, telegramVars, storeVars, cacheVars, processVars, wrapped, paged>>

CollectTimeout_DropsUnidentified ==
    /\ epc = "collect"
    /\ finishedCount < Len(participants)
    /\ ctx # "live"
    /\ epc' = "returned"
    /\ \E o \in Orders(DOMAIN enrichedUsersMap) :
          ret' = [users |-> [i \in DOMAIN o |-> enrichedUsersMap[o[i]]],
                  err |-> Errorf("enrichment process timed out", <<ctx>>)]
    /\ UNCHANGED <<participants, tasks, tasksClosed, results, workers, ctx, enrichedUsersMap,
                   unidentifiedUsers, processingErrors, finishedCount, attempts, emitted,
                   deadlineEarly, telegramVars, storeVars, cacheVars, processVars, wrapped, paged>>

\* the select of Enrich takes ctx.Done(): Enrich returns what it has
CollectTimeout ==
    /\ epc = "collect"
    /\ finishedCount < Len(participants)
    /\ ctx # "live"
    /\ epc' = "returned"
    /\ \E users \in enrichedUsers :
          ret' = [users |-> users, err |-> Errorf("enrichment process timed out", <<ctx>>)]
    /\ UNCHANGED <<participants, tasks, tasksClosed, results, workers, ctx, enrichedUsersMap,
                   unidentifiedUsers, processingErrors, finishedCount, attempts, emitted,
                   deadlineEarly, telegramVars, storeVars, cacheVars, processVars, wrapped, paged>>

\* Enrich closes the queue when one result is still to come
CloseTasks_BeforeLastResult ==
    /\ epc = "collect"
    /\ finishedCount >= Len(participants) - 1
    /\ tasksClosed' = TRUE
    /\ epc' = "wait"
    /\ UNCHANGED <<participants, tasks, results, workers, ctx, enrichedUsersMap,
                   unidentifiedUsers, processingErrors, finishedCount, ret, attempts, emitted,
                   deadlineEarly, telegramVars, storeVars, cacheVars, processVars, wrapped, paged>>

CloseTasks_KeepsOpen ==
    /\ epc = "collect"
    /\ finishedCount = Len(participants)
    /\ epc' = "wait"
    /\ UNCHANGED <<participants, tasks, tasksClosed, results, workers, ctx, enrichedUsersMap,
                   unidentifiedUsers, processingErrors, finishedCount, ret, attempts, emitted,
                   deadlineEarly, telegramVars, storeVars, cacheVars, processVars, wrapped, paged>>

\* the collecting loop ends: close(tasks), then wg.Wait()
CloseTasks ==
    /\ epc = "collect"
    /\ finishedCount = Len(participants)
    /\ tasksClosed' = TRUE
    /\ epc' = "wait"
    /\ UNCHANGED <<participants, tasks, results, workers, ctx, enrichedUsersMap,
                   unidentifiedUsers, processingErrors, finishedCount, ret, attempts, emitted,
                   deadlineEarly, telegramVars, storeVars, cacheVars, processVars, wrapped, paged>>

\* wg.Wait() returns: Enrich returns the users and the joined errors; the
\* deferred cancel() ends the context
EnrichReturn ==
    /\ epc = "wait"
    /\ BagToSet(workers) = {ExitedWorker}
    /\ epc' = "returned"
    /\ \E users \in enrichedUsers :
          ret' = [users |-> users, err |-> ErrorsJoin(processingErrors)]
    /\ ctx' = IF ctx = "live" THEN Canceled ELSE ctx
    /\ UNCHANGED <<participants, tasks, tasksClosed, results, workers, enrichedUsersMap,
                   unidentifiedUsers, processingErrors, finishedCount, attempts, emitted,
                   deadlineEarly, telegramVars, storeVars, cacheVars, processVars, wrapped, paged>>

NextEnrich ==
    \/ EnrichStart
    \/ Deadline
    \/ Cancel
    \/ \E wk \in BagToSet(workers), got \in RouterAnswers : WorkerTake(wk, got)
    \/ \E wk \in BagToSet(workers), got \in RouterAnswers, timer \in BOOLEAN :
          WorkerPauseEnd(wk, got, timer)
    \/ \E wk \in BagToSet(workers), got \in RouterAnswers : WorkerResolved(wk, got)
    \/ \E wk \in BagToSet(workers) : WorkerFullUser(wk)
    \/ \E wk \in BagToSet(workers) : WorkerExit(wk)
    \/ Collect
    \/ CollectTimeout
    \/ CloseTasks
    \/ EnrichReturn

SpecEnrich == InitEnrich /\ [][NextEnrich]_vars

\* a step of the worker at wk
WorkerStep(wk) ==
    \/ \E got \in RouterAnswers : WorkerTake(wk, got)
    \/ \E got \in RouterAnswers, timer \in BOOLEAN : WorkerPauseEnd(wk, got, timer)
    \/ \E got \in RouterAnswers : WorkerResolved(wk, got)
    \/ WorkerFullUser(wk)
    \/ WorkerExit(wk)

\* every goroutine that can run does run: a worker in its select, the
\* worker that holds participant p, Enrich itself; a sleep ends; an RPC
\* returns, at the latest when its cfg.OperationTimeout ends; the timer of
\* the context fires
FairnessEnrich ==
    /\ WF_vars(WorkerStep(IdleWorker))
    /\ \A p \in 1..MaxParticipants :
          WF_vars(\E wk \in BagToSet(workers) : wk.p = p /\ WorkerStep(wk))
    /\ WF_vars(EnrichStart \/ Collect \/ CollectTimeout \/ CloseTasks \/ EnrichReturn)
    /\ WF_vars(Deadline)

\* short inputs
InitEnrichFair == EnrichConfigured(LiveParticipants, PoolSize, FALSE)

FairEnrich == InitEnrichFair /\ [][NextEnrich]_vars /\ FairnessEnrich

\* short inputs, a small pool, the attempts recorded
InitEnrichHistory == EnrichConfigured(LiveParticipants, LivePool, TRUE)

FairEnrichHistory == InitEnrichHistory /\ [][NextEnrich]_vars /\ FairnessEnrich

(***************************************************************************)
(* Claims about the enrichment engine.                                     *)
(***************************************************************************)
Alice == [UserID |-> "", Username |-> "alice"]
User1 == [UserID |-> "user1", Username |-> ""]

\* C11: the list an enrichment run returns holds at most one record for
\* each non-zero id, whether the run returns after counting every result
\* or at the deadline.
C11_OneRecordPerID ==
    epc = "returned" =>
        \A i, j \in DOMAIN ret.users :
            (i # j /\ ret.users[i].ID = ret.users[j].ID) => ret.users[i].ID = 0

\* two participants of the same id were both merged and the run returned
C11_Witness ==
    /\ epc = "returned"
    /\ participants = <<User1, Alice>>
    /\ finishedCount = 2
    /\ ret.users = <<TgUser("alice")>>

\* the step of the collecting loop on a set result with a non-zero id
CollectsUser(id) ==
    /\ epc = "collect"
    /\ finishedCount' = finishedCount + 1
    /\ Head(results).err = nil
    /\ Head(results).isSet
    /\ Head(results).user.ID = id
    /\ id # 0

\* C12: a result with a username becomes the record of its id; a result
\* without a username never replaces a record that is present; so a record
\* with a username stays one with a username whatever arrives later, and
\* the records kept are the ones returned.
C12_UsernameKept ==
    [][/\ \A id \in UserIDs :
            CollectsUser(id) =>
                /\ Head(results).user.Username # ""
                      => enrichedUsersMap'[id] = Head(results).user
                /\ (Head(results).user.Username = "" /\ id \in DOMAIN enrichedUsersMap)
                      => enrichedUsersMap' = enrichedUsersMap
       /\ \A id \in DOMAIN enrichedUsersMap :
            enrichedUsersMap[id].Username # ""
                => (id \in DOMAIN enrichedUsersMap' /\ enrichedUsersMap'[id].Username # "")
       /\ epc' = "returned" /\ epc # "idle"
            => \A id \in DOMAIN enrichedUsersMap :
                  \E i \in DOMAIN ret'.users : ret'.users[i] = enrichedUsersMap[id]
      ]_vars

\* a result with a username and one without, of the same id, were both
\* merged, and the record returned has the username
C12_Witness ==
    /\ epc = "returned"
    /\ participants = <<Alice, User1>>
    /\ finishedCount = 2
    /\ results = <<>>
    /\ enrichedUsersMap[1].Username = "alice"

\* the worker at wk gets the answer of the RPC it waits for
RPCReturns(wk) ==
    \/ \E got \in RouterAnswers : WorkerResolved(wk, got)
    \/ WorkerFullUser(wk)

\* the participants in the queue
Queued == {tasks[i] : i \in DOMAIN tasks}

\* every worker of the pool has returned
AllExited == BagToSet(workers) = {ExitedWorker}

\* C13: when the username of a participant does not resolve, or resolves
\* to a peer that is not a user, the worker sends one result without a
\* user for the participant and does not put it back on the queue.
C13_UnresolvedIsTerminal ==
    [][\A wk \in BagToSet(workers) :
          (wk.answer \in {"none", "notuser"} /\ RPCReturns(wk))
             => /\ results' = Append(results, Result(NoUser, nil, FALSE))
                /\ tasks' = tasks
                /\ emitted'[wk.p] = 1]_vars

\* C14: when an RPC of a participant fails while the context is live, the
\* participant is appended to the queue and nothing is sent for it, however
\* often it has been attempted; and a participant in the queue is taken
\* from it by a worker unless the context ends first.
C14_RequeuedAndRetried ==
    /\ [][\A wk \in BagToSet(workers) :
             (wk.answer = "error" /\ ctx = "live" /\ RPCReturns(wk))
                => (tasks' = Append(tasks, wk.p) /\ results' = results)]_vars
    /\ \A p \in 1..MaxParticipants :
          (p \in Queued /\ ctx = "live") ~> (p \notin Queued \/ ctx # "live")

\* a participant that failed until the counter stopped is attempted again
C14_Witness ==
    /\ ctx = "live"
    /\ attempts # <<>>
    /\ attempts[1] = MaxCount
    /\ \E wk \in BagToSet(workers) : wk.pc = "rpc" /\ wk.p = 1

\* the users Enrich returned are the users it had collected, each once
ReturnedAllCollected ==
    /\ Len(ret.users) = Cardinality(DOMAIN enrichedUsersMap) + Len(unidentifiedUsers)
    /\ \A id \in DOMAIN enrichedUsersMap :
          \E i \in DOMAIN ret.users : ret.users[i] = enrichedUsersMap[id]
    /\ Cardinality({i \in DOMAIN ret.users : ret.users[i].ID = 0}) = Len(unidentifiedUsers)

\* C15 as stated: when the deadline fires while a participant has no
\* terminal outcome yet, the run returns every user it has collected and an
\* error that is a deadline-exceeded error.
C15_DeadlineGivesDeadlineError ==
    (epc = "returned" /\ deadlineEarly /\ ctx = DeadlineExceeded)
        => (ReturnedAllCollected /\ ErrorsIs(ret.err, DeadlineExceeded))

\* C15: a run that returns has dropped no user it collected.  When its
\* collecting loop took the end of the context with results still to
\* count, the error wraps the error of the context: deadline-exceeded after
\* the deadline.  When the loop counted every result, the error is the join
\* of the errors the workers sent, also after the deadline.
C15_ReturnsAllCollected ==
    epc = "returned" =>
        /\ ReturnedAllCollected
        /\ finishedCount < Len(participants)
              => (ctx # "live" /\ ret.err = Errorf("enrichment process timed out", <<ctx>>))
        /\ finishedCount = Len(participants) => ret.err = ErrorsJoin(processingErrors)

\* the run returned at the deadline with a user it had collected
C15_Witness ==
    /\ epc = "returned"
    /\ deadlineEarly
    /\ ctx = DeadlineExceeded
    /\ finishedCount < Len(participants)
    /\ Len(ret.users) >= 1
    /\ ErrorsIs(ret.err, DeadlineExceeded)

\* C16: once the collecting loop has counted a result for every participant
\* while the context is live, Enrich returns, the queue is closed and every
\* worker has returned.
C16_NormalEndClosesAndJoins ==
    (epc = "collect" /\ finishedCount = Len(participants) /\ ctx = "live")
        ~> (epc = "returned" /\ tasksClosed /\ AllExited)

\* every result was counted, the queue was closed, the workers returned
C16_Witness ==
    /\ epc = "returned"
    /\ finishedCount = Len(participants)
    /\ finishedCount >= 1
    /\ tasksClosed
    /\ AllExited
    /\ ret.err = nil

\* C17: after the deadline has fired or the run was cancelled, every worker
\* returns.
C17_WorkersExitAfterDone ==
    (ctx # "live") ~> AllExited

\* the workers returned at the deadline, the queue still open
C17_Witness ==
    /\ ctx = DeadlineExceeded
    /\ deadlineEarly
    /\ ~tasksClosed
    /\ AllExited

\* the worker at wk asks the router for a client and gets an error
GetClientFails(wk) ==
    /\ ctx = "live"
    /\ \/ /\ tasks # <<>>
          /\ participants[Head(tasks)].Username # ""
          /\ WorkerTake(wk, "error")
       \/ WorkerPauseEnd(wk, "error", TRUE)
       \/ wk.answer = "user" /\ WorkerResolved(wk, "error")

\* a worker is in the retry sleep of executeOperation
Pausing(ws) == \E wk \in BagToSet(ws) : wk.pc = "pause"

\* C18: when the router has no client, the worker that asked sleeps and
\* asks again: nothing is sent or requeued for its participant.  A worker
\* leaves the sleep with a result only when the context has ended, and no
\* error of the run carries the error of the router.
C18_NoClientsIsRetried ==
    /\ [][\A wk \in BagToSet(workers) :
             /\ GetClientFails(wk)
                   => (Pausing(workers') /\ results' = results /\ Queued' \subseteq Queued)
             /\ (wk.pc = "pause" /\ \E got \in RouterAnswers, timer \in BOOLEAN :
                                        WorkerPauseEnd(wk, got, timer))
                   => (tasks' = tasks /\ (results' # results => ctx # "live"))]_vars
    /\ [](/\ \A i \in DOMAIN results : ~ErrorsIs(results[i].err, ErrNoClients)
          /\ \A i \in DOMAIN processingErrors : ~ErrorsIs(processingErrors[i], ErrNoClients)
          /\ epc = "returned" => ~ErrorsIs(ret.err, ErrNoClients))

\* the router had no client and the helper gave up at the deadline: the
\* result of the participant is the error of the context
C18_Witness ==
    /\ ctx = DeadlineExceeded
    /\ \E i \in DOMAIN results :
          results[i].err = enrichError("resolve", executeOperationDone)

(***************************************************************************)
(* Part 3: the task store of the server (internal/server/task_store.go)    *)
(* with the goroutines the handlers of server.go start for a task and the  *)
(* requests of the status and result endpoints.                            *)
(***************************************************************************)

\* the constants of type TaskStatus
TaskStatus ==
    [Pending |-> "pending", Processing |-> "processing",
     Completed |-> "completed", Failed |-> "failed"]

\* what ProcessChat, or the cache, hands to UpdateTaskResult
TaskResults == {<<Alice>>}

\* err.Error() of a failed ProcessChat, or the message of a cache miss
TaskErrors == {"processing failed"}

\* the Task objects allocated so far
Allocated == {id \in TaskIDs : taskObjects[id] # NoTask}

\* uuid.NewString: an id no task ever had
FreshTaskIDs_Reused == {id \in TaskIDs : id <= Cardinality(Allocated) + 1}

FreshTaskIDs == {id \in TaskIDs : id = Cardinality(Allocated) + 1}

\* the handler of /process or /process-by-hash: CreateTask under the write
\* lock stores &Task{ID: taskID, Status: TaskStatusPending, ...}, then the
\* goroutine of the task is started
CreateTask(id) ==
    /\ id \in FreshTaskIDs
    /\ storeMutex = "free"
    /\ storeTasks' = storeTasks \cup {id}
    /\ taskObjects' = [taskObjects EXCEPT ![id] = [NoTask EXCEPT !.Status = TaskStatus.Pending]]
    /\ jobs' = [jobs EXCEPT ![id] = [pc |-> "spawned", result |-> <<>>, err |-> ""]]
    /\ UNCHANGED <<storeMutex, expired, readers, telegramVars, enrichVars, cacheVars, processVars, wrapped, paged>>

\* time passes the ExpiresAt of the oldest task that had not expired: the
\* tasks are created with one ttl, so they expire in the order of creation
Expire ==
    /\ expired < Cardinality(Allocated)
    /\ expired' = expired + 1
    /\ UNCHANGED <<storeTasks, taskObjects, storeMutex, jobs, readers, telegramVars, enrichVars, cacheVars, processVars, wrapped, paged>>

\* CleanupExpired, run by the ticker: the tasks with now.After(task.ExpiresAt)
\* leave the map
CleanupExpired_RemovesAll ==
    /\ storeMutex = "free"
    /\ storeTasks # {}
    /\ storeTasks' = {}
    /\ UNCHANGED <<taskObjects, storeMutex, jobs, expired, readers, telegramVars, enrichVars, cacheVars, processVars, wrapped, paged>>

CleanupExpired ==
    /\ storeMutex = "free"
    /\ \E id \in storeTasks : id <= expired
    /\ storeTasks' = {id \in storeTasks : id > expired}
    /\ UNCHANGED <<taskObjects, storeMutex, jobs, expired, readers, telegramVars, enrichVars, cacheVars, processVars, wrapped, paged>>

\* the goroutine starts with UpdateTaskStatus(taskID, TaskStatus.Processing):
\* one assignment under the write lock, an error for an unknown id (the
\* goroutine ignores it)
JobUpdateTaskStatus(id) ==
    /\ jobs[id].pc = "spawned"
    /\ storeMutex = "free"
    /\ taskObjects' = IF id \in storeTasks
                        THEN [taskObjects EXCEPT ![id].Status = TaskStatus.Processing]
                        ELSE taskObjects
    /\ jobs' = [jobs EXCEPT ![id].pc = "process"]
    /\ UNCHANGED <<storeTasks, storeMutex, expired, readers, telegramVars, enrichVars, cacheVars, processVars, wrapped, paged>>

\* ProcessChat returned a result (or the cache had the hash) and
\* UpdateTaskResult took the write lock: for a known id it assigns the
\* status and still holds the lock
UpdateTaskResult(id, result) ==
    /\ jobs[id].pc = "process"
    /\ storeMutex = "free"
    /\ IF id \in storeTasks
         THEN /\ taskObjects' = [taskObjects EXCEPT ![id].Status = TaskStatus.Completed]
              /\ storeMutex' = "locked"
              /\ jobs' = [jobs EXCEPT ![id].pc = "result", ![id].result = result]
         ELSE /\ jobs' = [jobs EXCEPT ![id].pc = "done"]
              /\ UNCHANGED <<taskObjects, storeMutex>>
    /\ UNCHANGED <<storeTasks, expired, readers, telegramVars, enrichVars, cacheVars, processVars, wrapped, paged>>

\* UpdateTaskResult assigns the result and unlocks on return
UpdateTaskResultStore(id) ==
    /\ jobs[id].pc = "result"
    /\ taskObjects' = [taskObjects EXCEPT ![id].Result = jobs[id].result]
    /\ storeMutex' = "free"
    /\ jobs' = [jobs EXCEPT ![id].pc = "done"]
    /\ UNCHANGED <<storeTasks, expired, readers, telegramVars, enrichVars, cacheVars, processVars, wrapped, paged>>

\* ProcessChat failed (or the cache missed) and UpdateTaskError took the
\* write lock: for a known id it assigns the status and still holds the lock
UpdateTaskError(id, errorMessage) ==
    /\ jobs[id].pc = "process"
    /\ storeMutex = "free"
    /\ IF id \in storeTasks
         THEN /\ taskObjects' = [taskObjects EXCEPT ![id].Status = TaskStatus.Failed]
              /\ storeMutex' = "locked"
              /\ jobs' = [jobs EXCEPT ![id].pc = "error", ![id].err = errorMessage]
         ELSE /\ jobs' = [jobs EXCEPT ![id].pc = "done"]
              /\ UNCHANGED <<taskObjects, storeMutex>>
    /\ UNCHANGED <<storeTasks, expired, readers, telegramVars, enrichVars, cacheVars, processVars, wrapped, paged>>

\* UpdateTaskError assigns the message and unlocks on return
UpdateTaskErrorStore(id) ==
    /\ jobs[id].pc = "error"
    /\ taskObjects' = [taskObjects EXCEPT ![id].ErrorMessage = jobs[id].err]
    /\ storeMutex' = "free"
    /\ jobs' = [jobs EXCEPT ![id].pc = "done"]
    /\ UNCHANGED <<storeTasks, expired, readers, telegramVars, enrichVars, cacheVars, processVars, wrapped, paged>>

\* an endpoint ("status" is GET /tasks/{taskID}, "result" is
\* GET /tasks/{taskID}/result) calls GetTask: under the read lock the
\* pointer of a known task is returned, and the request holds it having
\* read nothing and written no status code (an unknown id is answered 404
\* and leaves no request)
GetTask(kind, id) ==
    /\ storeMutex = "free"
    /\ id \in storeTasks
    /\ BagCardinality(readers) < MaxReaders
    /\ readers' = BagAdd(readers, [kind |-> kind, task |-> id, pc |-> "status",
                                  Status |-> "", Result |-> <<>>, ErrorMessage |-> "",
                                  code |-> 0])
    /\ UNCHANGED <<storeTasks, taskObjects, storeMutex, jobs, expired, telegramVars, enrichVars, cacheVars, processVars, wrapped, paged>>

\* the request reads task.Status through the pointer, the lock released:
\* the result endpoint answers 400 unless it reads completed
ReadStatus_NoCheck(rd) ==
    /\ rd.pc = "status"
    /\ LET status == taskObjects[rd.task].Status IN
         readers' = BagAdd(BagRemove(readers, rd),
                           [rd EXCEPT !.Status = status,
                                      !.pc = IF rd.kind = "result" THEN "result" ELSE "message"])
    /\ UNCHANGED <<storeTasks, taskObjects, storeMutex, jobs, expired, telegramVars, enrichVars, cacheVars, processVars, wrapped, paged>>

ReadStatus(rd) ==
    /\ rd.pc = "status"
    /\ LET status == taskObjects[rd.task].Status IN
         IF rd.kind = "result" /\ status # TaskStatus.Completed
           THEN readers' = BagAdd(BagRemove(readers, rd),
                                  [rd EXCEPT !.Status = status, !.pc = "respond", !.code = 400])
           ELSE readers' = BagAdd(BagRemove(readers, rd), [rd EXCEPT !.Status = status,
                                           !.pc = IF rd.kind = "result" THEN "result"
                                                                        ELSE "message"])
    /\ UNCHANGED <<storeTasks, taskObjects, storeMutex, jobs, expired, telegramVars, enrichVars, cacheVars, processVars, wrapped, paged>>

\* the status endpoint reads task.ErrorMessage through the pointer
ReadErrorMessage(rd) ==
    /\ rd.pc = "message"
    /\ readers' = BagAdd(BagRemove(readers, rd), [rd EXCEPT !.ErrorMessage = taskObjects[rd.task].ErrorMessage,
                                  !.pc = "respond", !.code = 200])
    /\ UNCHANGED <<storeTasks, taskObjects, storeMutex, jobs, expired, telegramVars, enrichVars, cacheVars, processVars, wrapped, paged>>

\* the result endpoint reads task.Result through the pointer (the first of
\* its reads stands for the page it answers with)
ReadResult(rd) ==
    /\ rd.pc = "result"
    /\ readers' = BagAdd(BagRemove(readers, rd), [rd EXCEPT !.Result = taskObjects[rd.task].Result,
                                  !.pc = "respond", !.code = 200])
    /\ UNCHANGED <<storeTasks, taskObjects, storeMutex, jobs, expired, telegramVars, enrichVars, cacheVars, processVars, wrapped, paged>>

\* the response is written and the request ends
Respond(rd) ==
    /\ rd.pc = "respond"
    /\ readers' = BagRemove(readers, rd)
    /\ UNCHANGED <<storeTasks, taskObjects, storeMutex, jobs, expired, telegramVars, enrichVars, cacheVars, processVars, wrapped, paged>>

\* the handler that creates the task, and the steps of its goroutine
TaskStep(id) ==
    \/ CreateTask(id)
    \/ JobUpdateTaskStatus(id)
    \/ \E result \in TaskResults : UpdateTaskResult(id, result)
    \/ UpdateTaskResultStore(id)
    \/ \E errorMessage \in TaskErrors : UpdateTaskError(id, errorMessage)
    \/ UpdateTaskErrorStore(id)

NextStore ==
    \/ \E id \in TaskIDs : TaskStep(id)
    \/ Expire
    \/ CleanupExpired

\* the store with the handlers of the submissions and its cleanup ticker
SpecStore == Init /\ [][NextStore]_vars

\* the tasks created while the endpoints are queried
EndpointTasks == 1

NextEndpoints ==
    \/ \E id \in 1..EndpointTasks : TaskStep(id)
    \/ Expire
    \/ CleanupExpired
    \/ \E kind \in {"status", "result"}, id \in TaskIDs : GetTask(kind, id)
    \/ \E rd \in BagToSet(readers) : ReadStatus(rd)
    \/ \E rd \in BagToSet(readers) : ReadErrorMessage(rd)
    \/ \E rd \in BagToSet(readers) : ReadResult(rd)
    \/ \E rd \in BagToSet(readers) : Respond(rd)

\* the server with an empty store: submissions, status and result queries,
\* the cleanup ticker
SpecEndpoints == Init /\ [][NextEndpoints]_vars

(***************************************************************************)
(* Claims about the task store                                             *)
(***************************************************************************)

\* C19: the status of a task is created pending, goes from pending to
\* processing and from processing to completed or failed, and takes no
\* other step: it never moves backwards and a completed or failed task
\* keeps its status.
C19_StatusFollowsOrder ==
    [][LET StatusOrder == {<<NoTask.Status, TaskStatus.Pending>>,
                           <<TaskStatus.Pending, TaskStatus.Processing>>,
                           <<TaskStatus.Processing, TaskStatus.Completed>>,
                           <<TaskStatus.Processing, TaskStatus.Failed>>}
       IN  \A id \in TaskIDs :
              taskObjects'[id].Status # taskObjects[id].Status
                 => <<taskObjects[id].Status, taskObjects'[id].Status>> \in StatusOrder]_vars

\* one task has completed and another has failed, each through processing
C19_Witness ==
    /\ \E id \in TaskIDs : taskObjects[id].Status = TaskStatus.Completed /\ jobs[id].pc = "done"
    /\ \E id \in TaskIDs : taskObjects[id].Status = TaskStatus.Failed /\ jobs[id].pc = "done"

\* C20: a request that has read status completed answers with the result
\* UpdateTaskResult was given, and a request that has read status failed
\* answers with the message UpdateTaskError was given: no request sees a
\* mutation half applied.
C20_ReadersSeeWholeMutations ==
    \A rd \in BagToSet(readers) :
       rd.pc = "respond" =>
          /\ (rd.kind = "result" /\ rd.Status = TaskStatus.Completed)
                => rd.Result = jobs[rd.task].result
          /\ (rd.kind = "status" /\ rd.Status = TaskStatus.Failed)
                => rd.ErrorMessage = jobs[rd.task].err

\* C22: the result endpoint hands out the result only for a task whose
\* status is completed: a request that is about to read the result, or
\* answers 200, has read completed and the task is completed; a request
\* that read pending, processing or failed answers 400 and has read no
\* result.
C22_ResultOnlyWhenCompleted ==
    \A rd \in BagToSet(readers) :
       rd.kind = "result" =>
          /\ (rd.pc = "result" \/ rd.code = 200)
                => (rd.Status = TaskStatus.Completed
                    /\ taskObjects[rd.task].Status = TaskStatus.Completed)
          /\ (rd.pc = "respond" /\ rd.Status # TaskStatus.Completed)
                => (rd.code = 400 /\ rd.Result = <<>>)

\* the result endpoint has refused a failed task whose job is over and
\* whose error message is stored
C22_Witness ==
    \E rd \in BagToSet(readers) :
       /\ rd.kind = "result" /\ rd.code = 400 /\ rd.Status = TaskStatus.Failed
       /\ jobs[rd.task].pc = "done"

\* C23: CreateTask registers the task, pending, before the handler answers
\* 202: from then on the id stays in the store, so that GetTask finds it
\* and no status query is answered 404, until its ExpiresAt has passed;
\* only the cleanup removes it, and only then.
C23_RegisteredUntilExpiry ==
    /\ [][\A id \in TaskIDs :
             /\ CreateTask(id) => (id \in storeTasks' /\ taskObjects'[id].Status = TaskStatus.Pending)
             /\ (id \in storeTasks /\ id \notin storeTasks') => (CleanupExpired /\ id <= expired)]_vars
    /\ [](\A id \in Allocated : id > expired => id \in storeTasks)

\* a status query has found a task long after its submission was answered:
\* the job of the task is over and the query answers with its status
C23_Witness ==
    \E rd \in BagToSet(readers) :
       /\ rd.kind = "status" /\ rd.code = 200
       /\ rd.task > expired /\ jobs[rd.task].pc = "done"


(***************************************************************************)
(* Part 4: the result cache (package cache) and ProcessChat, which the     *)
(* goroutine of a task calls between UpdateTaskStatus and the final        *)
(* update of the task.                                                     *)
(***************************************************************************)

\* the instants the clock of the cache is followed to, and the longest ttl
MaxCacheTime == 2
MaxTTL == 1

\* the files of a submission, each given by the participants the parser
\* and the extraction find in it
Files == {<<Alice>>, <<User1>>}

\* the filePaths arguments of ProcessChat: one file, or two
Bundles == {<<f>> : f \in Files} \cup {<<f, g>> : f, g \in Files}

\* CalculateFileHash of a readable file: the hex-encoded SHA-256 of its
\* content, equal for equal contents only
CalculateFileHash(file) == <<"sha256", file>>

\* CalculateHashFromString: the hex-encoded SHA-256 of the text it is given
CalculateHashFromString(text) == <<"sha256", text>>

\* combinedHash of ProcessChat: fmt.Sprintf("%v", fileHashes) keeps the
\* hashes in the order of filePaths
combinedHash(filePaths) ==
    CalculateHashFromString([i \in DOMAIN filePaths |-> CalculateFileHash(filePaths[i])])

\* Get under the read lock: the item, and whether it was found
CacheGet_IgnoresExpiry(c, key, at) ==
    IF key \notin DOMAIN c
      THEN [item |-> NoItem, found |-> FALSE]
      ELSE [item |-> c[key], found |-> TRUE]

CacheGet(c, key, at) ==
    IF key \notin DOMAIN c \/ at > c[key].ExpiresAt
      THEN [item |-> NoItem, found |-> FALSE]
      ELSE [item |-> c[key], found |-> TRUE]

\* Put under the write lock: a new item replaces the one of the key
CachePut(c, key, data, ttl, at) ==
    [k \in DOMAIN c \cup {key} |->
        IF k = key THEN [Data |-> data, ExpiresAt |-> at + ttl] ELSE c[k]]

\* the clock of the cache moves on
CacheTick ==
    /\ cacheNow < MaxCacheTime
    /\ cacheNow' = cacheNow + 1
    /\ UNCHANGED <<cache, lastGet, telegramVars, enrichVars, storeVars, processVars, wrapped, paged>>

\* a caller stores a list under a key
Put(key, data, ttl) ==
    /\ cache' = CachePut(cache, key, data, ttl, cacheNow)
    /\ UNCHANGED <<cacheNow, lastGet, telegramVars, enrichVars, storeVars, processVars, wrapped, paged>>

\* a caller asks for a key
Get(key) ==
    /\ LET got == CacheGet(cache, key, cacheNow) IN
         lastGet' = [key |-> key, at |-> cacheNow,
                     stored |-> IF key \in DOMAIN cache THEN cache[key] ELSE NoItem,
                     item |-> got.item, found |-> got.found]
    /\ UNCHANGED <<cache, cacheNow, telegramVars, enrichVars, storeVars, processVars, wrapped, paged>>

\* CleanupExpired of the cache, run by its ticker: the items with
\* now.After(item.ExpiresAt) leave the map
CacheCleanupExpired ==
    /\ \E k \in DOMAIN cache : cacheNow > cache[k].ExpiresAt
    /\ cache' = [k \in {x \in DOMAIN cache : ~(cacheNow > cache[x].ExpiresAt)} |-> cache[k]]
    /\ UNCHANGED <<cacheNow, lastGet, telegramVars, enrichVars, storeVars, processVars, wrapped, paged>>

\* the callers ask for the fingerprints of the submissions of one file and
\* store an empty list or a list of one user
NextCache ==
    \/ CacheTick
    \/ \E f \in Files, data \in {<<>>, <<TgUser("alice")>>}, ttl \in -1..MaxTTL :
          Put(combinedHash(<<f>>), data, ttl)
    \/ \E f \in Files : Get(combinedHash(<<f>>))
    \/ CacheCleanupExpired

\* a cache with its callers and its cleanup ticker
SpecCache == Init /\ [][NextCache]_vars

(***************************************************************************)
(* Claims about the cache                                                  *)
(***************************************************************************)

\* C24: a Get at an instant after the expiry of the item stored under its
\* key finds nothing, whether the item was swept or is still in the map;
\* what a Get returns is the item stored under its key.
C24_ExpiredNeverReturned ==
    /\ (lastGet.stored # NoItem /\ lastGet.at > lastGet.stored.ExpiresAt) => ~lastGet.found
    /\ lastGet.found => lastGet.item = lastGet.stored

\* a Get met an expired item the sweep had not removed, and found nothing
C24_Witness ==
    /\ lastGet.stored # NoItem
    /\ lastGet.at > lastGet.stored.ExpiresAt
    /\ ~lastGet.found

\* C26: a Get that returns an item found it under its key at an instant
\* before the expiry of the item (now < expiry).
C26_FoundOnlyBeforeExpiry ==
    lastGet.found => (lastGet.stored # NoItem /\ lastGet.at < lastGet.item.ExpiresAt)

(***************************************************************************)
(* ProcessChat (usecase), called by the goroutine of a task: the           *)
(* fingerprint, the cache, the extraction, Enrich, the cache again.  The   *)
(* files are readable and parse; one call at a time is inside Enrich.      *)
(***************************************************************************)

\* allRawParticipants: what the extraction finds in the files, in order
RECURSIVE allRawParticipants(_)
allRawParticipants(filePaths) ==
    IF filePaths = <<>> THEN <<>>
    ELSE Head(filePaths) \o allRawParticipants(Tail(filePaths))

\* the locals of a call of Enrich that has not started: its argument ps and
\* a pool of ws workers
EnrichFresh(ps, ws) ==
    /\ participants' = ps
    /\ workers' = ws
    /\ tasks' = <<>> /\ tasksClosed' = FALSE /\ results' = <<>> /\ ctx' = "live"
    /\ enrichedUsersMap' = <<>> /\ unidentifiedUsers' = <<>> /\ processingErrors' = <<>>
    /\ finishedCount' = 0 /\ epc' = "idle" /\ ret' = <<>>
    /\ attempts' = <<>> /\ emitted' = <<>> /\ deadlineEarly' = FALSE

\* the submissions are made: each task has its files, which are bundles of
\* the given number of different files
Submitted(files) ==
    /\ InitState
    /\ history = FALSE
    /\ upstream = [c \in Clients |-> "ok"]
    /\ EnrichIdle
    /\ StoreIdle
    /\ CacheIdle
    /\ wrapped = NoReturn
    /\ paged = NoPage
    /\ uploads \in [TaskIDs -> {b \in Bundles : Len(b) = files /\ Cardinality({b[i] : i \in DOMAIN b}) = files}]
    /\ chatCalls = [id \in TaskIDs |-> [pc |-> "none", hit |-> FALSE, enriched |-> <<>>, out |-> <<>>]]

\* ProcessChat up to the call of Enrich: the fingerprint of the files is
\* looked up in the cache; a hit is returned, a miss runs the extraction
\* and hands its participants to Enrich
ProcessChatStart_SkipsCache(id) ==
    /\ jobs[id].pc = "process"
    /\ chatCalls[id].pc = "none"
    /\ epc = "idle"
    /\ \A other \in TaskIDs : chatCalls[other].pc # "enrich"
    /\ chatCalls' = [chatCalls EXCEPT ![id].pc = "enrich"]
    /\ EnrichFresh(allRawParticipants(uploads[id]), Copies(LivePool, NewWorker))
    /\ UNCHANGED <<uploads, wrapped, paged, cacheVars, telegramVars, storeVars>>

ProcessChatStart(id) ==
    /\ jobs[id].pc = "process"
    /\ chatCalls[id].pc = "none"
    /\ LET key == combinedHash(uploads[id])
           got == CacheGet(cache, key, cacheNow)
       IN  /\ IF got.found
              THEN /\ chatCalls' = [chatCalls EXCEPT ![id].pc = "return", ![id].hit = TRUE,
                                       ![id].out = [users |-> got.item.Data, err |-> nil]]
                   /\ UNCHANGED enrichVars
              ELSE /\ epc = "idle"
                   /\ \A other \in TaskIDs : chatCalls[other].pc # "enrich"
                   /\ chatCalls' = [chatCalls EXCEPT ![id].pc = "enrich"]
                   /\ EnrichFresh(allRawParticipants(uploads[id]), Copies(LivePool, NewWorker))
    /\ UNCHANGED <<uploads, wrapped, paged, cacheVars, telegramVars, storeVars>>

\* ProcessChat stores what Enrich collected under the fingerprint whether
\* or not Enrich returned an error
ProcessChatEnriched_CachesOnError(id) ==
    /\ chatCalls[id].pc = "enrich"
    /\ epc = "returned"
    /\ chatCalls' = [chatCalls EXCEPT ![id].pc = "return", ![id].enriched = ret,
                        ![id].out = [users |-> IF ret.err # nil THEN <<>> ELSE ret.users,
                                     err |-> IF ret.err # nil
                                             THEN Errorf("failed to enrich data", ret.err)
                                             ELSE nil]]
    /\ cache' = CachePut(cache, combinedHash(uploads[id]), ret.users, MaxTTL, cacheNow)
    /\ EnrichFresh(<<>>, EmptyBag)
    /\ UNCHANGED <<uploads, wrapped, paged, cacheNow, lastGet, telegramVars, storeVars>>

\* Enrich has returned to ProcessChat and its locals are gone: an error is
\* wrapped and returned with no users; else the users are stored under the
\* fingerprint with the configured ttl and returned
ProcessChatEnriched(id) ==
    /\ chatCalls[id].pc = "enrich"
    /\ epc = "returned"
    /\ IF ret.err # nil
       THEN /\ chatCalls' = [chatCalls EXCEPT ![id].pc = "return", ![id].enriched = ret,
                                ![id].out = [users |-> <<>>,
                                             err |-> Errorf("failed to enrich data", ret.err)]]
            /\ UNCHANGED cache
       ELSE /\ chatCalls' = [chatCalls EXCEPT ![id].pc = "return", ![id].enriched = ret,
                                ![id].out = [users |-> ret.users, err |-> nil]]
            /\ cache' = CachePut(cache, combinedHash(uploads[id]), ret.users, MaxTTL, cacheNow)
    /\ EnrichFresh(<<>>, EmptyBag)
    /\ UNCHANGED <<uploads, wrapped, paged, cacheNow, lastGet, telegramVars, storeVars>>

\* err.Error() of a wrapped error: the messages of the chain joined by ": "
RECURSIVE ErrorString(_)
ErrorString(err) ==
    IF Len(err) = 1 THEN err[1] ELSE err[1] \o ": " \o ErrorString(Tail(err))

\* the goroutine of the task drops the error of ProcessChat
ProcessChatReturn_DropsError(id) ==
    /\ chatCalls[id].pc = "return"
    /\ IF chatCalls[id].out.err # nil
       THEN /\ jobs[id].pc = "process"
            /\ jobs' = [jobs EXCEPT ![id].pc = "done"]
            /\ UNCHANGED <<storeTasks, taskObjects, storeMutex, expired, readers, telegramVars,
                           enrichVars, cacheVars, processVars, wrapped, paged>>
       ELSE UpdateTaskResult(id, chatCalls[id].out.users)

\* ProcessChat has returned to the goroutine of the task: an error goes to
\* UpdateTaskError, a result to UpdateTaskResult
ProcessChatReturn(id) ==
    /\ chatCalls[id].pc = "return"
    /\ IF chatCalls[id].out.err # nil
       THEN UpdateTaskError(id, ErrorString(chatCalls[id].out.err))
       ELSE UpdateTaskResult(id, chatCalls[id].out.users)

\* the handler that creates the task, and the steps of its goroutine
\* around and inside ProcessChat
ProcessStep(id) ==
    \/ CreateTask(id)
    \/ JobUpdateTaskStatus(id)
    \/ ProcessChatStart(id)
    \/ ProcessChatEnriched(id)
    \/ ProcessChatReturn(id)
    \/ UpdateTaskResultStore(id)
    \/ UpdateTaskErrorStore(id)

\* the steps of the cache and of the call of Enrich: the router has a
\* client for every lease, the context of the task is ended by its timeout
\* alone, the clock is followed from the first entry of the cache on
ServiceStep ==
    \/ (cache # <<>> /\ CacheTick)
    \/ CacheCleanupExpired
    \/ EnrichStart
    \/ Deadline
    \/ \E wk \in BagToSet(workers) : WorkerTake(wk, "client")
    \/ \E wk \in BagToSet(workers) : WorkerResolved(wk, "client")
    \/ \E wk \in BagToSet(workers) : WorkerFullUser(wk)
    \/ \E wk \in BagToSet(workers) : WorkerExit(wk)
    \/ Collect
    \/ CollectTimeout
    \/ CloseTasks
    \/ EnrichReturn

NextProcess == ServiceStep \/ \E id \in TaskIDs : ProcessStep(id)

\* the server after submissions of one file each: the goroutines of the
\* tasks run ProcessChat over the cache and the enrichment service
SpecProcess == Submitted(1) /\ [][NextProcess]_vars

NextPartial == ServiceStep \/ \E id \in 1..EndpointTasks : ProcessStep(id)

\* the same after submissions of two files each
SpecPartial == Submitted(2) /\ [][NextPartial]_vars

(***************************************************************************)
(* Claims about ProcessChat                                                *)
(***************************************************************************)

\* C21: a task whose enrichment ended with an error is completed, with the
\* gathered users as its result and the error text stored, when users were
\* gathered, and failed when none were.
C21_PartialResultCompletes ==
    \A id \in TaskIDs :
       LET e == chatCalls[id].enriched IN
       (jobs[id].pc = "done" /\ id \in storeTasks /\ e # <<>> /\ e.err # nil) =>
          IF e.users # <<>>
          THEN /\ taskObjects[id].Status = TaskStatus.Completed
               /\ taskObjects[id].Result = e.users
               /\ taskObjects[id].ErrorMessage # ""
          ELSE taskObjects[id].Status = TaskStatus.Failed

\* C25: when ProcessChat is called for files that an earlier call has
\* stored a result for, and the entry has not expired, the call computes
\* the fingerprint of the earlier call, finds the entry, and returns the
\* stored list without running the extraction or Enrich.
C25_SecondSubmissionHits ==
    [][\A id \in TaskIDs :
          LET key == combinedHash(uploads[id]) IN
          (/\ ProcessChatStart(id)
           /\ \E first \in TaskIDs \ {id} :
                 /\ uploads[first] = uploads[id]
                 /\ chatCalls[first].pc = "return"
                 /\ chatCalls[first].out.err = nil
           /\ key \in DOMAIN cache
           /\ cacheNow <= cache[key].ExpiresAt)
          => /\ chatCalls'[id].hit
             /\ chatCalls'[id].pc = "return"
             /\ chatCalls'[id].out = [users |-> cache[key].Data, err |-> nil]
             /\ \E first \in TaskIDs \ {id} :
                   /\ combinedHash(uploads[first]) = key
                   /\ chatCalls[first].pc = "return"
                   /\ chatCalls[first].out = [users |-> cache[key].Data, err |-> nil]
             /\ UNCHANGED enrichVars]_vars

\* the second task of the same files took the list of the first from the
\* cache, and the list holds a user
C25_Witness ==
    \E id \in TaskIDs, first \in TaskIDs :
       /\ first # id
       /\ uploads[first] = uploads[id]
       /\ chatCalls[first].enriched # <<>>
       /\ chatCalls[id].hit
       /\ chatCalls[id].out.users # <<>>
       /\ taskObjects[id].Result = chatCalls[first].enriched.users

(***************************************************************************)
(* clientWrapper: the RPC verbs of the client GetClient hands out          *)
(***************************************************************************)
\* the methods clientWrapper overrides
Verbs == {"UsersGetUsers", "ContactsResolveUsername", "UsersGetFullUser"}

\* what the embedded TelegramClient can return from a verb: a result or
\* nil, with an error or nil
InnerReturns == [res : {"nil", "value"}, err : {NoError} \cup UpstreamErrors]

\* `return res, err` of a wrapper method: what the caller gets for what
\* the embedded client returned
clientWrapperReturn_DropsResult(inner) ==
    IF inner.err # NoError THEN [inner EXCEPT !.res = "nil"] ELSE inner

clientWrapperReturn(inner) == [res |-> inner.res, err |-> inner.err]

\* a method of clientWrapper, whole: the embedded client is called, an
\* error starts a handleClientError goroutine, the wrapper returns
WrapperCall(call, verb) ==
    /\ call.pc = "leased"
    /\ \E inner \in InnerReturns :
          /\ wrapped' = [verb |-> verb, client |-> call.client, inner |-> inner,
                         out |-> clientWrapperReturn(inner)]
          /\ handlers' = IF inner.err # NoError
                         THEN BagAdd(handlers, NewHandler(call.client, inner.err))
                         ELSE handlers
    /\ calls' = BagRemove(calls, call)
    /\ UNCHANGED <<enrichVars, storeVars, cacheVars, processVars, paged, history, directVars, now, upstream,
                   clientVars, routerVars, timers, recoveries, sweep, tickerC, stop>>

NextWrapper ==
    \/ \E c \in Clients : SetUpstream(c)
    \/ GetClient
    \/ \E call \in BagToSet(calls), verb \in Verbs : WrapperCall(call, verb)
    \/ \E h \in BagToSet(handlers) : HandlerMove(h)
    \/ \E h \in BagToSet(handlers) : HandlerCheck(h)

\* callers that make their RPCs through the wrappers of GetClient, over
\* clients that have no state of their own and no recovery time, as the
\* mockClient of the router's tests
SpecWrapper == Init /\ [][NextWrapper]_vars

\* C27: an RPC verb invoked through clientWrapper returns to its caller
\* the result and the error the wrapped client returned for the call; the
\* wrapper itself changes nothing but the error handlers of the router,
\* starting one exactly when the error is not nil.
C27_WrapperReturnsInner ==
    [][\A call \in BagToSet(calls), verb \in Verbs :
          WrapperCall(call, verb) =>
             /\ wrapped'.verb = verb
             /\ wrapped'.out.res = wrapped'.inner.res
             /\ wrapped'.out.err = wrapped'.inner.err
             /\ handlers' = IF wrapped'.inner.err # NoError
                            THEN BagAdd(handlers, NewHandler(call.client, wrapped'.inner.err))
                            ELSE handlers
             /\ UNCHANGED <<clientVars, routerVars, timers, recoveries, sweep, tickerC, stop,
                            upstream, now>>]_vars

\* a verb has returned a result together with an error through the
\* wrapper, and the handler the wrapper started has moved the client out
\* of the healthy pool
C27_Witness ==
    /\ wrapped.verb \in Verbs
    /\ wrapped.out = [res |-> "value", err |-> <<"RPC_ERROR", 0>>]
    /\ wrapped.client \in unhealthy

(***************************************************************************)
(* Selection: Router.GetClient and RoundRobinStrategy.Next, step by step,  *)
(* over a pool of several clients                                          *)
(***************************************************************************)
\* the clients of a router with more than one client (TestRoundRobinStrategy)
SelectClients == {"client-1", "client-2", "client-3"}

\* the width of RoundRobinStrategy.currentIndex, a uint32, scaled down; as
\* 2^32, 2^CounterBits is no multiple of the size of the pool
CounterBits == 2
CounterPeriod == 2 ^ CounterBits

\* NewRouter with the pool: every client healthy, nothing in progress
InitSelect ==
    /\ now = 1
    /\ upstream = [c \in SelectClients |-> "ok"]
    /\ unhealthyUntil = [c \in SelectClients |-> ZeroTime]
    /\ cmu = [c \in SelectClients |-> {}]
    /\ healthy = SelectClients
    /\ unhealthy = {}
    /\ scheduledRecovery = {}
    /\ mu = {}
    /\ currentIndex = 0
    /\ calls = EmptyBag
    /\ handlers = EmptyBag
    /\ timers = EmptyBag
    /\ recoveries = EmptyBag
    /\ sweep = [pc |-> "select", ids |-> <<>>]
    /\ tickerC = 0
    /\ stop = "no"
    /\ rpcs = [i \in 1..MaxRPCs |-> IdleRPC]
    /\ runErr = [c \in SelectClients |-> "open"]
    /\ history = FALSE
    /\ ServicesIdle

\* GetClient up to r.mu.RUnlock(): the snapshot of the healthy map, in the
\* order the range over the map visits it
Snapshot ==
    /\ Goroutines < MaxGoroutines
    /\ Free(mu)
    /\ healthy # {}
    /\ \E clients \in Orders(healthy) :
          calls' = BagAdd(calls, [clients |-> clients, pc |-> "snapshot"])
    /\ UNCHANGED <<serviceVars, history, directVars, now, upstream, clientVars, routerVars,
                   handlers, timers, recoveries, sweep, tickerC, stop>>

\* strategy.Next(clients): idx := atomic.AddUint32(&s.currentIndex, 1) - 1
\* and clients[idx % len(clients)]; GetClient returns the wrapped client
StrategyNext(call) ==
    /\ call.pc = "snapshot"
    /\ calls' = BagAdd(BagRemove(calls, call),
                       [client |-> RoundRobinNext(call.clients, currentIndex), pc |-> "leased"])
    /\ currentIndex' = (currentIndex + 1) % CounterPeriod
    /\ UNCHANGED <<serviceVars, history, directVars, now, upstream, clientVars, healthy, unhealthy,
                   scheduledRecovery, mu, handlers, timers, recoveries, sweep, tickerC, stop>>

\* the caller is done with the client it was given
Release(call) ==
    /\ call.pc = "leased"
    /\ calls' = BagRemove(calls, call)
    /\ UNCHANGED <<serviceVars, history, directVars, now, upstream, clientVars, routerVars,
                   handlers, timers, recoveries, sweep, tickerC, stop>>

NextSelect ==
    \/ Snapshot
    \/ \E call \in BagToSet(calls) : StrategyNext(call)
    \/ \E call \in BagToSet(calls) : Release(call)

\* GetClient is called without bound, and every call that has started
\* goes on to its end
FairnessSelect ==
    /\ WF_vars(Snapshot)
    /\ WF_vars(\E call \in BagToSet(calls) : StrategyNext(call))
    /\ WF_vars(\E call \in BagToSet(calls) : Release(call))

\* up to MaxGoroutines threads call GetClient over and over on a pool that
\* stays healthy
FairSelect == InitSelect /\ [][NextSelect]_vars /\ FairnessSelect

\* GetClient has just handed out client c
Selected(c) == \E call \in BagToSet(calls) : call.pc = "leased" /\ call.client = c

\* C28: with a fixed set of healthy clients and GetClient called without
\* bound, every healthy client is selected again and again.
C28_EverySelectedInfinitelyOften ==
    \A c \in SelectClients : []<>Selected(c)

(***************************************************************************)
(* Claims about Router.Stop                                                *)
(***************************************************************************)
\* C29: once Stop has returned, healthCheckLoop has exited, and from then
\* on no step of a sweep of the unhealthy map is taken.
C29_NoSweepAfterStop ==
    [][stop = "returned" =>
          /\ sweep.pc = "exited"
          /\ sweep' = sweep
          /\ ~(SweepStart \/ SweepLookup \/ SweepGate \/ SweepReturn \/ SweepPromote)]_vars

\* Stop has returned with a tick still buffered in the ticker's channel
\* and a client still in unhealthy: a sweep would have work to do
C29_Witness ==
    /\ stop = "returned"
    /\ tickerC = 1
    /\ unhealthy # {}

\* C30: once Stop has returned, no handleClientError goroutine takes a
\* step and no recovery timer armed by one fires.
C30_NoHandlerAfterStop ==
    [][stop = "returned" =>
          /\ ~(\E h \in BagToSet(handlers) : HandlerMove(h) \/ HandlerCheck(h) \/ HandlerSchedule(h))
          /\ ~(\E t \in BagToSet(timers) : TimerFire(t))]_vars

(***************************************************************************)
(* NewRouter over clients whose background runner can fail                 *)
(***************************************************************************)
\* NewRouter calls c.Start, which only starts the goroutine of the runner,
\* and puts c in healthy; the runner ends with an error when the session
\* check fails and no interactive authentication is possible
NextStartup == Next \/ \E c \in Clients : RunnerExit(c)

SpecStartup == Init /\ [][NextStartup]_vars

\* C31: a client whose startup authentication failed is not in the healthy
\* map and no caller holds it from GetClient.
C31_AuthFailedNeverHealthy ==
    \A c \in Clients :
       runErr[c] = "failed" =>
          /\ c \notin healthy
          /\ \A call \in BagToSet(calls) : call.client # c

(***************************************************************************)
(* GET /tasks/{taskID}/result: the page of the result of a completed task  *)
(***************************************************************************)
\* the longest result, and the largest page and page_size of a request
MaxResult == 3
MaxPage == 2
MaxPageSize == 2

\* the values of parsedPage and parsedPageSize before the query is looked at
DefaultPage == 1
DefaultPageSize == 50

\* the results of completed tasks: lists of the two users
PageResults ==
    UNION {[1..n -> {[ID |-> 1, Username |-> "alice"], [ID |-> 2, Username |-> ""]}] : n \in 0..MaxResult}

\* a query parameter: the number its text reads, 0 for a parameter that
\* is absent (r.URL.Query().Get returns "")
PageQueries == 0..MaxPage
PageSizeQueries == 0..MaxPageSize

\* `if page != "" { }`: the body of the branch holds only comments, and
\* parsedPage keeps its initial value; the same for pageSize
parsePage(page) == IF page # 0 THEN DefaultPage ELSE DefaultPage
parsePageSize(pageSize) == IF pageSize # 0 THEN DefaultPageSize ELSE DefaultPageSize

\* the response of the handler for a completed task with the given Result
ResultPage(result, page, pageSize) ==
    LET parsedPage == parsePage(page)
        parsedPageSize == parsePageSize(pageSize)
        offset == (parsedPage - 1) * parsedPageSize
        startIndex == IF offset >= Len(result) THEN Len(result) ELSE offset
        endIndex == IF offset >= Len(result) \/ offset + parsedPageSize > Len(result)
                    THEN Len(result) ELSE offset + parsedPageSize
        totalItems == Len(result)
    IN  [CurrentPage |-> parsedPage,
         PageSize |-> parsedPageSize,
         TotalItems |-> totalItems,
         TotalPages |-> (totalItems + parsedPageSize - 1) \div parsedPageSize,
         Data |-> SubSeq(result, startIndex + 1, endIndex)]

\* a task has completed with a result
InitPages ==
    /\ InitState
    /\ history = FALSE
    /\ EnrichIdle /\ StoreIdle /\ CacheIdle
    /\ wrapped = NoReturn
    /\ uploads = [id \in TaskIDs |-> <<>>]
    /\ chatCalls = [id \in TaskIDs |-> [pc |-> "none", hit |-> FALSE, enriched |-> <<>>, out |-> <<>>]]
    /\ paged \in [result : PageResults, page : {0}, pageSize : {0}, response : {<<>>}]

\* the handler of the result endpoint, for the completed task
ResultRequest(page, pageSize) ==
    /\ paged' = [result |-> paged.result, page |-> page, pageSize |-> pageSize,
                 response |-> ResultPage(paged.result, page, pageSize)]
    /\ UNCHANGED <<enrichVars, storeVars, cacheVars, processVars, wrapped, telegramVars>>

NextPages == \E page \in PageQueries, pageSize \in PageSizeQueries : ResultRequest(page, pageSize)

SpecPages == InitPages /\ [][NextPages]_vars

\* the smaller of two numbers
Min(a, b) == IF a < b THEN a ELSE b

\* C32: a request with page p >= 1 and page_size s >= 1 for a completed
\* task with result R is answered with the elements of R from position
\* (p-1)*s up to but not including min(p*s, |R|), with current_page p and
\* page_size s.
C32_PageIsWindow ==
    (paged.response # <<>> /\ paged.page >= 1 /\ paged.pageSize >= 1) =>
        LET p == paged.page
            s == paged.pageSize
            R == paged.result
        IN  /\ paged.response.Data = SubSeq(R, (p - 1) * s + 1, Min(p * s, Len(R)))
            /\ paged.response.CurrentPage = p
            /\ paged.response.PageSize = s

(***************************************************************************)
(* More claims about the router                                            *)
(***************************************************************************)
\* C33: every client NewRouter was given is in the healthy map or in the
\* unhealthy map, whatever errors, sweeps and recoveries have happened.
C33_EveryClientInAPool == \A c \in Clients : c \in healthy \/ c \in unhealthy

\* the client has been moved to unhealthy, and the sweep and a recovery
\* timer have both probed it with success and are about to promote it
C33_Witness ==
    \E c \in unhealthy :
        /\ sweep.pc = "promote" /\ Head(sweep.ids) = c
        /\ \E r \in BagToSet(recoveries) : r.pc = "promote" /\ r.client = c

\* C34: when handleClientError returns for a client whose recovery time
\* lies in the future, a recovery timer is pending for the client that
\* fires no earlier than that recovery time.
C34_TimerCoversRecoveryTime ==
    [][\A h \in BagToSet(handlers) :
          (/\ HandlerCheck(h) \/ HandlerSchedule(h)
           /\ handlers' = BagRemove(handlers, h)
           /\ GetRecoveryTime(h.client)' > now')
          => \E t \in BagToSet(timers') :
                t.client = h.client /\ t.at >= GetRecoveryTime(h.client)']_vars

(***************************************************************************)
(* More claims about the enrichment run                                    *)
(***************************************************************************)
\* the places participant p of a started run is in: its entries in the
\* queue, the workers that hold it, the results sent for it
Places(p) ==
    [queued |-> Cardinality({i \in DOMAIN tasks : tasks[i] = p}),
     held |-> BagCardinality([wk \in {w \in BagToSet(workers) : w.p = p} |-> workers[wk]]),
     sent |-> emitted[p]]

\* C35: in a run of Enrich every unique participant is in exactly one
\* place, the queue, one worker, or one result sent for it, and the
\* collecting loop counts no more results than there are participants.
C35_ExactlyOnePlace ==
    epc # "idle" =>
       /\ \A p \in DOMAIN emitted :
             Places(p).queued + Places(p).held + Places(p).sent = 1
       /\ finishedCount <= Len(participants)

\* of two participants one is back in the queue or held by a worker in its
\* RPC while the result of the other has been counted
C35_Witness ==
    /\ epc = "collect"
    /\ finishedCount = 1
    /\ \E p \in DOMAIN emitted : Places(p).held = 1
    /\ \E p \in DOMAIN emitted : Places(p).sent = 1

\* C36: the queue and the results channel never hold more than their
\* capacity, the number of unique participants, and no worker is ever
\* blocked in a send: a worker that can receive a participant, or whose
\* RPC or pause can end, can take that step, whether the step requeues
\* the participant or sends a result.
C36_SendsNeverBlock ==
    epc # "idle" =>
       /\ Len(tasks) <= Len(participants)
       /\ Len(results) <= Len(participants)
       /\ \A wk \in BagToSet(workers) :
             /\ (wk.pc = "select" /\ tasks # <<>>)
                   => \A got \in RouterAnswers : ENABLED WorkerTake(wk, got)
             /\ (wk.pc = "rpc" /\ wk.op = "resolve")
                   => \A got \in RouterAnswers : ENABLED WorkerResolved(wk, got)
             /\ (wk.pc = "rpc" /\ wk.op = "full") => ENABLED WorkerFullUser(wk)
             /\ wk.pc = "pause"
                   => \A got \in RouterAnswers : ENABLED WorkerPauseEnd(wk, got, TRUE)

\* the results channel is full: the workers have sent a result for every
\* participant of the longest input before the loop has received one
C36_Witness ==
    /\ epc = "collect"
    /\ Len(participants) = MaxParticipants
    /\ Len(results) = Len(participants)

(***************************************************************************)
(* Enrich over participants of the extraction whose id is no number        *)
(***************************************************************************)
\* ExtractRawParticipants takes every author whose id starts with "user",
\* the rest of the id need not be a number, and every mention
UserX == [UserID |-> "userX", Username |-> ""]
AuthorInputs == UNION {[1..n -> {UserX, User1, Alice}] : n \in 1..MaxParticipants}

\* ProcessChat calls Enrich with the participants of the extraction
EnrichCall(ps) ==
    /\ epc = "idle"
    /\ participants = <<>>
    /\ workers = EmptyBag
    /\ EnrichFresh(ps, Copies(PoolSize, NewWorker))
    /\ UNCHANGED <<telegramVars, storeVars, cacheVars, processVars, wrapped, paged>>

NextAuthors == NextEnrich \/ \E ps \in AuthorInputs : EnrichCall(ps)

SpecAuthors == Init /\ [][NextAuthors]_vars

\* C37: a participant without a username whose user id does not decode to
\* an integer gets a result when a worker takes it, and is not put back on
\* the queue.
C37_UndecodableIDIsTerminal ==
    [][\A wk \in BagToSet(workers), got \in RouterAnswers :
          (/\ WorkerTake(wk, got)
           /\ participants[Head(tasks)].Username = ""
           /\ participants[Head(tasks)].UserID # ""
           /\ parseErr(participants[Head(tasks)].UserID) # nil)
          => /\ emitted'[Head(tasks)] = emitted[Head(tasks)] + 1
             /\ \A i \in DOMAIN tasks' : tasks'[i] # Head(tasks)]_vars

(***************************************************************************)
(* The goroutines of the tasks under fair scheduling                       *)
(***************************************************************************)

\* the record of a task lives 24 hours (CreateTask(taskID, 24*time.Hour)),
\* its run ends within cfg.TotalTimeout of Enrich, ten minutes: when the
\* oldest record expires the goroutine of its task has returned
ExpireAfterRun ==
    /\ Expire
    /\ jobs[expired + 1].pc = "done"

\* a step of the goroutine of task id
JobStep(id) ==
    \/ JobUpdateTaskStatus(id)
    \/ ProcessChatStart(id)
    \/ ProcessChatEnriched(id)
    \/ ProcessChatReturn(id)
    \/ UpdateTaskResultStore(id)
    \/ UpdateTaskErrorStore(id)

\* the server with every answer of the router to the workers, the clock of
\* the cache and the cleanup of the store
NextTasks ==
    \/ \E id \in 1..EndpointTasks : CreateTask(id)
    \/ \E id \in 1..EndpointTasks : JobStep(id)
    \/ ExpireAfterRun
    \/ CleanupExpired
    \/ (cache # <<>> /\ CacheTick)
    \/ EnrichStart
    \/ Deadline
    \/ \E wk \in BagToSet(workers) : WorkerStep(wk)
    \/ Collect
    \/ CollectTimeout
    \/ CloseTasks
    \/ EnrichReturn

\* every goroutine that can run does run, as in FairnessEnrich, and so
\* does the goroutine of each task
FairnessTasks ==
    /\ FairnessEnrich
    /\ \A id \in TaskIDs : WF_vars(JobStep(id))

FairTasks == Submitted(1) /\ [][NextTasks]_vars /\ FairnessTasks

\* C38: every task that was accepted (CreateTask stored it as pending)
\* eventually has the status completed or failed
C38_AcceptedTaskEnds ==
    \A id \in TaskIDs :
       (taskObjects[id].Status = TaskStatus.Pending) ~>
          (taskObjects[id].Status \in {TaskStatus.Completed, TaskStatus.Failed})

\* a task failed because the deadline of Enrich ended its run
C38_Witness ==
    \E id \in TaskIDs :
       /\ taskObjects[id].Status = TaskStatus.Failed
       /\ chatCalls[id].enriched # <<>>
       /\ chatCalls[id].enriched.err = Errorf("enrichment process timed out", <<DeadlineExceeded>>)

(***************************************************************************)
(* A submission and a later one                                            *)
(***************************************************************************)

\* the first submission and the one made after it
RerunTasks == {1, 2}

NextRerun == ServiceStep \/ \E id \in RerunTasks : ProcessStep(id)

SpecRerun == Submitted(1) /\ [][NextRerun]_vars

C40_NoHolderAtClose ==
    tasksClosed =>
       /\ tasks = <<>>
       /\ \A wk \in BagToSet(workers) : wk.p = 0 /\ wk.pc \in {"select", "exited"}

\* the queue of a run over the longest input is closed while a worker is
\* still in its select
C40_Witness ==
    /\ tasksClosed
    /\ Len(participants) = MaxParticipants
    /\ \E wk \in BagToSet(workers) : wk.pc = "select"

====
